---- MODULE Spec2Model ----
(***************************************************************************)
(* PoppyEMU: the 65C02 core of the Odin32K emulator (src/src/main.c,       *)
(* src/src/time.h), release build (NDEBUG: VERBOSE 0, STEP 0,              *)
(* WAIT_AT_BEGIN 0, CLOCK_SPEED 4 MHz).                                    *)
(*                                                                         *)
(* The three memory arrays are kept as the bytes that differ from their    *)
(* boot-time contents: rom0/rom1 are zero-initialised statics, so a        *)
(* missing offset reads 0; sysram is filled from the PRNG at boot, so a    *)
(* missing address reads BootRam(seed, addr).                              *)
(***************************************************************************)
EXTENDS Integers, Sequences, FiniteSets, TLC

VARIABLES
    phase,       \* "Start" (process started), "Running" (inside loop()), "Exit1" (main returned 1)
    argv,        \* the command line after argv[0]: a sequence of file names
    registers,   \* struct registers: pc, sp, a, x, y, p
    sysram,      \* sysram[32768], as address -> byte for the bytes written since boot
    rom0,        \* rom0[8192], as offset -> byte for the non-zero-initialised bytes
    rom1,        \* rom1[8192], likewise
    seed,        \* the srand() argument: targettime.tv_nsec at boot
    targettime,  \* struct timespec targettime: the pacer's deadline
    cycles,      \* total n passed to waitForCycles since the process started
    ins1,        \* the opcode byte fetched by the last loop iteration (-1: none yet)
    bus,         \* the bus accesses of the last loop iteration, in order
    fin,         \* arguments of the last directly applied function
    fout         \* its results

vars == <<phase, argv, registers, sysram, rom0, rom1, seed, targettime, cycles,
          ins1, bus, fin, fout>>

----------------------------------------------------------------------------
(* Bounds of the model *)

\* loop() iterations start only while fewer than MaxCycles cycles have elapsed
MaxCycles == 30
\* boot-time tv_nsec values (PRNG seeds) 0..NumSeeds-1
NumSeeds == 2
\* number of distinct bytes the floating bus is drawn from
NumOpenVals == 3

----------------------------------------------------------------------------
(* Widths and bit operations of the C integer types *)

Byte == 0..255

U8(v) == v % 256

U16(v) == v % 65536

RECURSIVE BitAnd(_, _)
BitAnd(a, b) ==
    IF a = 0 \/ b = 0 THEN 0
    ELSE (a % 2) * (b % 2) + 2 * BitAnd(a \div 2, b \div 2)

RECURSIVE BitXor(_, _)
BitXor(a, b) ==
    IF a = 0 THEN b
    ELSE IF b = 0 THEN a
    ELSE ((a + b) % 2) + 2 * BitXor(a \div 2, b \div 2)

BitOr(a, b) == a + b - BitAnd(a, b)

\* v & ~mask on a uint8_t
BitClear(v, mask) == v - BitAnd(v, mask)

----------------------------------------------------------------------------
(* Status flags, src/src/main.c:54-61 *)

FLAG_CARRY == 1
FLAG_ZERO == 2
FLAG_IRQDISABLE == 4
FLAG_DECIMAL == 8
FLAG_BREAK == 16
FLAG_ONE == 32
FLAG_OVERFLOW == 64
FLAG_NEGATIVE == 128

----------------------------------------------------------------------------
(* Clock pacer *)

CLOCK_SPEED == 4000000

NSEC_PER_SEC == 1000000000

clocktime == NSEC_PER_SEC \div CLOCK_SPEED

\* waitForCycles() without the carry of tv_nsec into tv_sec
waitForCycles_noCarry(m, n) ==
    LET nanosec == clocktime * n
        ns == m.targettime.tv_nsec + (nanosec % NSEC_PER_SEC)
    IN  [m EXCEPT !.targettime = [tv_sec |-> m.targettime.tv_sec + (nanosec \div NSEC_PER_SEC),
                                  tv_nsec |-> ns % NSEC_PER_SEC],
                  !.cycles = @ + n]

\* waitForCycles(n): advance the deadline by n clock periods, then waitUntil
\* (the sleep changes no program variable).
waitForCycles(m, n) ==
    LET nanosec == clocktime * n
        nsec1 == m.targettime.tv_nsec + (nanosec % NSEC_PER_SEC)
        sec1 == m.targettime.tv_sec + (nsec1 \div NSEC_PER_SEC)
    IN  [m EXCEPT !.targettime = [tv_sec |-> sec1 + (nanosec \div NSEC_PER_SEC),
                                  tv_nsec |-> nsec1 % NSEC_PER_SEC],
                  !.cycles = @ + n]

----------------------------------------------------------------------------
(* Memory arrays *)

\* sysram[i] = rand() & rand() for every i at boot: the image the seed yields
\* (-1: no srand() yet, the static array is still zero)
BootRam(s, i) == IF s < 0 THEN 0 ELSE (i * 37 + (s % 256) * 101 + (i \div 256) * 11) % 256

RamAt(m, addr) ==
    IF addr \in DOMAIN m.sysram THEN m.sysram[addr] ELSE BootRam(m.seed, addr)

RomAt(rom, off) == IF off \in DOMAIN rom THEN rom[off] ELSE 0

\* The bytes rand() ^ rand() (as uint8_t) is drawn from in the model
OpenBusBytes == {(k * 255) % 256 : k \in 0..1} \cup {(k * 45) % 256 : k \in 2..(NumOpenVals - 1)}

----------------------------------------------------------------------------
(* Memory bus *)

\* readByte() decoding the ROM offset with addr & $0FFF
readByte_mask4k(m, addr) ==
    LET top == addr \div 4096
        floating == ~(top \in 0..7 \/ top \in 12..15)
        ret == CASE top \in 0..7 -> RamAt(m, addr)
                 [] top \in 12..13 -> RomAt(m.rom1, addr % 4096)
                 [] top \in 14..15 -> RomAt(m.rom0, addr % 4096)
                 [] OTHER -> IF m.rnd = <<>> THEN 0 ELSE Head(m.rnd)
        m1 == IF floating
              THEN IF m.rnd = <<>> THEN [m EXCEPT !.starve = TRUE]
                                   ELSE [m EXCEPT !.rnd = Tail(@)]
              ELSE m
        m2 == waitForCycles(m1, 1)
    IN  [m2 EXCEPT !.ret = ret,
                   !.bus = Append(@, [kind |-> "R", addr |-> addr, value |-> ret,
                                      cycles |-> m2.cycles])]

\* readByte(addr): the byte is left in m.ret.  A floating read takes the next
\* byte of m.rnd; m.starve records that m.rnd was too short.
readByte(m, addr) ==
    LET top == addr \div 4096
        floating == ~(top \in 0..7 \/ top \in 12..15)
        ret == CASE top \in 0..7 -> RamAt(m, addr)
                 [] top \in 12..13 -> RomAt(m.rom1, addr % 8192)
                 [] top \in 14..15 -> RomAt(m.rom0, addr % 8192)
                 [] OTHER -> IF m.rnd = <<>> THEN 0 ELSE Head(m.rnd)
        m1 == IF floating
              THEN IF m.rnd = <<>> THEN [m EXCEPT !.starve = TRUE]
                                   ELSE [m EXCEPT !.rnd = Tail(@)]
              ELSE m
        m2 == waitForCycles(m1, 1)
    IN  [m2 EXCEPT !.ret = ret,
                   !.bus = Append(@, [kind |-> "R", addr |-> addr, value |-> ret,
                                      cycles |-> m2.cycles])]

\* writeByte() with waitForCycles(1) inside each case of the switch, so that
\* an address with no case ($Bxxx) is not paced
writeByte_tickInCase(m, addr, value) ==
    LET top == addr \div 4096
        m1 == IF top \in 0..7
              THEN [m EXCEPT !.sysram = (addr :> value) @@ @]
              ELSE m
        m2 == IF top = 11 THEN m1 ELSE waitForCycles(m1, 1)
    IN  [m2 EXCEPT !.bus = Append(@, [kind |-> "W", addr |-> addr, value |-> value,
                                      cycles |-> m2.cycles])]

\* writeByte() storing into rom0 in the ROM 0 case
writeByte_rom0Writable(m, addr, value) ==
    LET top == addr \div 4096
        m1 == IF top \in 0..7
              THEN [m EXCEPT !.sysram = (addr :> value) @@ @]
              ELSE IF top \in 14..15
                   THEN [m EXCEPT !.rom0 = ((addr % 8192) :> value) @@ @]
                   ELSE m
        m2 == waitForCycles(m1, 1)
    IN  [m2 EXCEPT !.bus = Append(@, [kind |-> "W", addr |-> addr, value |-> value,
                                      cycles |-> m2.cycles])]

\* writeByte(addr, value)
writeByte(m, addr, value) ==
    LET top == addr \div 4096
        m1 == IF top \in 0..7
              THEN [m EXCEPT !.sysram = (addr :> value) @@ @]
              ELSE m
        m2 == waitForCycles(m1, 1)
    IN  [m2 EXCEPT !.bus = Append(@, [kind |-> "W", addr |-> addr, value |-> value,
                                      cycles |-> m2.cycles])]

----------------------------------------------------------------------------
(* Microcode *)

\* ucodeSetZNFlags() that leaves the negative flag alone on a zero value
ucodeSetZNFlags_zeroKeepsN(value, flags) ==
    IF value # 0
    THEN IF BitAnd(value, 128) # 0
         THEN BitOr(BitClear(flags, FLAG_ZERO), FLAG_NEGATIVE)
         ELSE BitClear(BitClear(flags, FLAG_ZERO), FLAG_NEGATIVE)
    ELSE BitOr(flags, FLAG_ZERO)

\* ucodeSetZNFlags(value, flags): the new *flags
ucodeSetZNFlags(value, flags) ==
    IF value # 0
    THEN IF BitAnd(value, 128) # 0
         THEN BitOr(BitClear(flags, FLAG_ZERO), FLAG_NEGATIVE)
         ELSE BitClear(BitClear(flags, FLAG_ZERO), FLAG_NEGATIVE)
    ELSE BitClear(BitOr(flags, FLAG_ZERO), FLAG_NEGATIVE)

\* ucodeAddWithCarry() without the carry in
ucodeAddWithCarry_noCarryIn(a, b, flags) ==
    LET result == U16(a + b)
        f1 == ucodeSetZNFlags(U8(result), flags)
        f2 == IF BitAnd(result, 256) # 0 THEN BitOr(f1, FLAG_CARRY)
                                         ELSE BitClear(f1, FLAG_CARRY)
        f3 == IF BitAnd(BitAnd(BitXor(a, result), BitXor(b, result)), 128) # 0
              THEN BitOr(f2, FLAG_OVERFLOW)
              ELSE BitClear(f2, FLAG_OVERFLOW)
    IN  [result |-> U8(result), flags |-> f3]

\* ucodeAddWithCarry() taking the overflow from a ^ b instead of b ^ result
ucodeAddWithCarry_overflowAB(a, b, flags) ==
    LET result == U16(a + b + (IF BitAnd(flags, FLAG_CARRY) # 0 THEN 1 ELSE 0))
        f1 == ucodeSetZNFlags(U8(result), flags)
        f2 == IF BitAnd(result, 256) # 0 THEN BitOr(f1, FLAG_CARRY)
                                         ELSE BitClear(f1, FLAG_CARRY)
        f3 == IF BitAnd(BitAnd(BitXor(a, result), BitXor(a, b)), 128) # 0
              THEN BitOr(f2, FLAG_OVERFLOW)
              ELSE BitClear(f2, FLAG_OVERFLOW)
    IN  [result |-> U8(result), flags |-> f3]

\* ucodeAddWithCarry(a, b, flags): result is the uint16_t sum.  Every caller
\* passes &registers.p as flags, so the Z/N update (made on registers.p) and
\* the C/V updates (made on *flags) hit the same byte.
ucodeAddWithCarry(a, b, flags) ==
    LET result == U16(a + b + (IF BitAnd(flags, FLAG_CARRY) # 0 THEN 1 ELSE 0))
        f1 == ucodeSetZNFlags(U8(result), flags)
        f2 == IF BitAnd(result, 256) # 0 THEN BitOr(f1, FLAG_CARRY)
                                         ELSE BitClear(f1, FLAG_CARRY)
        f3 == IF BitAnd(BitAnd(BitXor(a, result), BitXor(b, result)), 128) # 0
              THEN BitOr(f2, FLAG_OVERFLOW)
              ELSE BitClear(f2, FLAG_OVERFLOW)
    IN  [result |-> U8(result), flags |-> f3]

\* ucodeSubWithCarry() negating b (b = 256 - b) instead of complementing it
ucodeSubWithCarry_negate(a, b, flags) ==
    LET nb == U8(256 - b)
        result == U16(a + nb + (IF BitAnd(flags, FLAG_CARRY) # 0 THEN 1 ELSE 0))
        f1 == ucodeSetZNFlags(U8(result), flags)
        f2 == IF BitAnd(result, 256) # 0 THEN BitOr(f1, FLAG_CARRY)
                                         ELSE BitClear(f1, FLAG_CARRY)
        f3 == IF BitAnd(BitAnd(BitXor(a, result), BitXor(nb, result)), 128) # 0
              THEN BitOr(f2, FLAG_OVERFLOW)
              ELSE BitClear(f2, FLAG_OVERFLOW)
    IN  [result |-> U8(result), flags |-> f3]

\* ucodeSubWithCarry(a, b, flags): b = 255 - b, then the same statements
ucodeSubWithCarry(a, b, flags) ==
    LET nb == U8(255 - b)
        result == U16(a + nb + (IF BitAnd(flags, FLAG_CARRY) # 0 THEN 1 ELSE 0))
        f1 == ucodeSetZNFlags(U8(result), flags)
        f2 == IF BitAnd(result, 256) # 0 THEN BitOr(f1, FLAG_CARRY)
                                         ELSE BitClear(f1, FLAG_CARRY)
        f3 == IF BitAnd(BitAnd(BitXor(a, result), BitXor(nb, result)), 128) # 0
              THEN BitOr(f2, FLAG_OVERFLOW)
              ELSE BitClear(f2, FLAG_OVERFLOW)
    IN  [result |-> U8(result), flags |-> f3]

\* ucodePush() with a stack pointer that stops at 0 instead of wrapping
ucodePush_noWrap(m, value) ==
    LET m1 == writeByte(m, BitOr(256, m.sp), value)
    IN  [m1 EXCEPT !.sp = IF @ = 0 THEN 0 ELSE @ - 1]

\* ucodePush(&registers.sp, value)
ucodePush(m, value) ==
    LET m1 == writeByte(m, BitOr(256, m.sp), value)
    IN  [m1 EXCEPT !.sp = U8(@ + 255)]

\* ucodePop() reading before the increment (*sp++ for ++*sp)
ucodePop_postIncrement(m) ==
    LET m1 == readByte(m, BitOr(256, m.sp))
    IN  [m1 EXCEPT !.sp = U8(@ + 1)]

\* ucodePop(&registers.sp): the byte is left in m.ret
ucodePop(m) ==
    LET m1 == [m EXCEPT !.sp = U8(@ + 1)]
    IN  readByte(m1, BitOr(256, m1.sp))

----------------------------------------------------------------------------
(* One statement of an opcode handler.  The handler temporaries live in the  *)
(* machine record: ins2 (uint8_t), ins23 (uint16_t), ea (ins23x, ins23y,     *)
(* addry), addr (uint16_t), value (uint8_t), ret (the last readByte result). *)

RegOf(m, r) ==
    CASE r = "a" -> m.a
      [] r = "x" -> m.x
      [] r = "y" -> m.y
      [] r = "sp" -> m.sp
      [] r = "value" -> m.value
      [] r = "ins2" -> m.ins2
      [] r = "ins23" -> m.ins23
      [] r = "ea" -> m.ea
      [] r = "addr" -> m.addr
      [] r = "ret" -> m.ret

\* Assignment of a handler temporary, with ins23 = v << 8 for ins23 |= v << 8
SetReg_hiAssigns(m, r, v) ==
    CASE r = "a" -> [m EXCEPT !.a = v]
      [] r = "x" -> [m EXCEPT !.x = v]
      [] r = "y" -> [m EXCEPT !.y = v]
      [] r = "sp" -> [m EXCEPT !.sp = v]
      [] r = "p" -> [m EXCEPT !.p = v]
      [] r = "value" -> [m EXCEPT !.value = v]
      [] r = "ins2" -> [m EXCEPT !.ins2 = v]
      [] r = "ins23lo" -> [m EXCEPT !.ins23 = v]
      [] r = "ins23hi" -> [m EXCEPT !.ins23 = v * 256]
      [] r = "addrlo" -> [m EXCEPT !.addr = v]
      [] r = "addrhi" -> [m EXCEPT !.addr = BitOr(@, v * 256)]
      [] r = "pclo" -> [m EXCEPT !.pc = v]
      [] r = "pchi" -> [m EXCEPT !.pc = BitOr(@, v * 256)]
      [] r = "" -> m

SetReg(m, r, v) ==
    CASE r = "a" -> [m EXCEPT !.a = v]
      [] r = "x" -> [m EXCEPT !.x = v]
      [] r = "y" -> [m EXCEPT !.y = v]
      [] r = "sp" -> [m EXCEPT !.sp = v]
      [] r = "p" -> [m EXCEPT !.p = v]
      [] r = "value" -> [m EXCEPT !.value = v]
      [] r = "ins2" -> [m EXCEPT !.ins2 = v]
      [] r = "ins23lo" -> [m EXCEPT !.ins23 = v]
      [] r = "ins23hi" -> [m EXCEPT !.ins23 = BitOr(@, v * 256)]
      [] r = "addrlo" -> [m EXCEPT !.addr = v]
      [] r = "addrhi" -> [m EXCEPT !.addr = BitOr(@, v * 256)]
      [] r = "pclo" -> [m EXCEPT !.pc = v]
      [] r = "pchi" -> [m EXCEPT !.pc = BitOr(@, v * 256)]
      [] r = "" -> m

\* The read statement with the vector reads at $FFFC/$FFFD (the reset vector)
DoRead_resetVector(m, src, dst) ==
    LET at == CASE src = "pc++" -> m.pc
                [] src = "pc" -> m.pc
                [] src = "ins2++" -> m.ins2
                [] src = "ins23++" -> m.ins23
                [] src = "stack" -> BitOr(256, m.sp)
                [] src = "FFFE" -> 65532
                [] src = "FFFF" -> 65533
                [] OTHER -> RegOf(m, src)
        m1 == CASE src = "pc++" -> [m EXCEPT !.pc = U16(@ + 1)]
                [] src = "ins2++" -> [m EXCEPT !.ins2 = U8(@ + 1)]
                [] src = "ins23++" -> [m EXCEPT !.ins23 = U16(@ + 1)]
                [] OTHER -> m
        m2 == readByte(m1, at)
    IN  SetReg(m2, dst, m2.ret)

\* The read statement with the stack read made one above the stack pointer
DoRead_stackAbove(m, src, dst) ==
    LET at == CASE src = "pc++" -> m.pc
                [] src = "pc" -> m.pc
                [] src = "ins2++" -> m.ins2
                [] src = "ins23++" -> m.ins23
                [] src = "stack" -> BitOr(256, U8(m.sp + 1))
                [] src = "FFFE" -> 65534
                [] src = "FFFF" -> 65535
                [] OTHER -> RegOf(m, src)
        m1 == CASE src = "pc++" -> [m EXCEPT !.pc = U16(@ + 1)]
                [] src = "ins2++" -> [m EXCEPT !.ins2 = U8(@ + 1)]
                [] src = "ins23++" -> [m EXCEPT !.ins23 = U16(@ + 1)]
                [] OTHER -> m
        m2 == readByte(m1, at)
    IN  SetReg(m2, dst, m2.ret)

\* <<"rd", src, dst>>: dst = readByte(src), with the post-increment of src
DoRead(m, src, dst) ==
    LET at == CASE src = "pc++" -> m.pc
                [] src = "pc" -> m.pc
                [] src = "ins2++" -> m.ins2
                [] src = "ins23++" -> m.ins23
                [] src = "stack" -> BitOr(256, m.sp)
                [] src = "FFFE" -> 65534
                [] src = "FFFF" -> 65535
                [] OTHER -> RegOf(m, src)
        m1 == CASE src = "pc++" -> [m EXCEPT !.pc = U16(@ + 1)]
                [] src = "ins2++" -> [m EXCEPT !.ins2 = U8(@ + 1)]
                [] src = "ins23++" -> [m EXCEPT !.ins23 = U16(@ + 1)]
                [] OTHER -> m
        m2 == readByte(m1, at)
    IN  SetReg(m2, dst, m2.ret)

\* The pushed value, with the return address taken after the whole operand
\* (pc + 1 at the time of the push)
PushValue_afterOperand(m, src) ==
    CASE src = "a" -> m.a
      [] src = "status" -> BitOr(BitOr(m.p, FLAG_BREAK), FLAG_ONE)
      [] src = "pchi" -> U16(m.pc + 1) \div 256
      [] src = "pclo" -> U8(m.pc + 1)

\* The pushed value, with the status byte as registers.p | FLAG_ONE
PushValue_noBreak(m, src) ==
    CASE src = "a" -> m.a
      [] src = "status" -> BitOr(m.p, FLAG_ONE)
      [] src = "pchi" -> m.pc \div 256
      [] src = "pclo" -> U8(m.pc)

\* The pushed value, with the status byte as registers.p | FLAG_BREAK
PushValue_noFlagOne(m, src) ==
    CASE src = "a" -> m.a
      [] src = "status" -> BitOr(m.p, FLAG_BREAK)
      [] src = "pchi" -> m.pc \div 256
      [] src = "pclo" -> U8(m.pc)

PushValue(m, src) ==
    CASE src = "a" -> m.a
      [] src = "status" -> BitOr(BitOr(m.p, FLAG_BREAK), FLAG_ONE)
      [] src = "pchi" -> m.pc \div 256
      [] src = "pclo" -> U8(m.pc)

Do(m, u) ==
    CASE u[1] = "rd" -> DoRead(m, u[2], u[3])
      [] u[1] = "wr" -> writeByte(m, RegOf(m, u[2]), RegOf(m, u[3]))
      [] u[1] = "push" -> ucodePush(m, PushValue(m, u[2]))
      [] u[1] = "pop" -> LET m1 == ucodePop(m) IN SetReg(m1, u[2], m1.ret)
      [] u[1] = "idx8" -> [m EXCEPT !.ins2 = U8(@ + RegOf(m, u[2]))]
      [] u[1] = "idx16" -> [m EXCEPT !.ins23 = U16(@ + RegOf(m, u[2]))]
      [] u[1] = "ea" -> [m EXCEPT !.ea = U16(RegOf(m, u[2]) + RegOf(m, u[3]))]
      [] u[1] = "cross" ->
            IF (m.ea \div 256) # (RegOf(m, u[2]) \div 256) THEN readByte(m, m.pc) ELSE m
      [] u[1] = "++pc" -> [m EXCEPT !.pc = U16(@ + 1)]
      [] u[1] = "zn" -> [m EXCEPT !.p = ucodeSetZNFlags(RegOf(m, u[2]), @)]
      [] u[1] = "mov" -> SetReg(m, u[2], RegOf(m, u[3]))
      [] u[1] = "inc" -> SetReg(m, u[2], U8(RegOf(m, u[2]) + 1))
      [] u[1] = "dec" -> SetReg(m, u[2], U8(RegOf(m, u[2]) + 255))
      [] u[1] = "adc" ->
            LET r == ucodeAddWithCarry(m.a, RegOf(m, u[2]), m.p)
            IN  [m EXCEPT !.a = r.result, !.p = r.flags]
      [] u[1] = "sbc" ->
            LET r == ucodeSubWithCarry(m.a, RegOf(m, u[2]), m.p)
            IN  [m EXCEPT !.a = r.result, !.p = r.flags]
      [] u[1] = "clr" -> [m EXCEPT !.p = BitClear(@, u[2])]
      [] u[1] = "set" -> [m EXCEPT !.p = BitOr(@, u[2])]
      [] u[1] = "jmp" -> [m EXCEPT !.pc = RegOf(m, u[2])]
      [] u[1] = "wait" -> waitForCycles(m, u[2])

RECURSIVE Run(_, _)
Run(m, us) == IF us = <<>> THEN m ELSE Run(Do(m, Head(us)), Tail(us))

----------------------------------------------------------------------------
(* The opcode handlers of loop(), statement by statement (after the opcode   *)
(* fetch).  A family shares one shape where the source repeats the same      *)
(* statements for another register.                                          *)

\* ins2 = readByte(pc++); r = ins2; setZN           (A9, A2, A0)
LoadImm(r) == << <<"rd", "pc++", "ins2">>, <<"mov", r, "ins2">>, <<"zn", r>> >>

\* ins2 = readByte(pc++); r = readByte(ins2); setZN           (A5, A6, A4)
LoadZp(r) == << <<"rd", "pc++", "ins2">>, <<"rd", "ins2", r>>, <<"zn", r>> >>

\* ins2 = readByte(pc++); readByte(ins2); ins2 += i; r = readByte(ins2); setZN   (B5, B6, B4)
LoadZpIdx(r, i) ==
    << <<"rd", "pc++", "ins2">>, <<"rd", "ins2", "">>, <<"idx8", i>>,
       <<"rd", "ins2", r>>, <<"zn", r>> >>

\* ins23 = readByte(pc++) | readByte(pc++) << 8; r = readByte(ins23); setZN   (AD, AE, AC)
LoadAbs(r) ==
    << <<"rd", "pc++", "ins23lo">>, <<"rd", "pc++", "ins23hi">>,
       <<"rd", "ins23", r>>, <<"zn", r>> >>

\* BD, BC: the high byte is read at pc without increment, the page-cross dummy
\* read is made at pc, then ++pc
LoadAbsIdx(r, i) ==
    << <<"rd", "pc++", "ins23lo">>, <<"rd", "pc", "ins23hi">>, <<"ea", "ins23", i>>,
       <<"cross", "ins23">>, <<"++pc">>, <<"rd", "ea", r>>, <<"zn", r>> >>

\* B9, BE: as LoadAbsIdx, but the handler has no ++pc
LoadAbsIdxNoInc(r, i) ==
    << <<"rd", "pc++", "ins23lo">>, <<"rd", "pc", "ins23hi">>, <<"ea", "ins23", i>>,
       <<"cross", "ins23">>, <<"rd", "ea", r>>, <<"zn", r>> >>

\* the pointer fetch of (INDIRECT,X) with a 16-bit pointer address: the high
\* byte after $FF is read at $0100
PtrIndX_noWrap ==
    << <<"rd", "pc++", "ins2">>, <<"rd", "ins2", "">>, <<"idx8", "x">>,
       <<"mov", "ins23lo", "ins2">>,
       <<"rd", "ins23++", "addrlo">>, <<"rd", "ins23", "addrhi">> >>

\* the pointer fetch of the (INDIRECT,X) handlers
PtrIndX ==
    << <<"rd", "pc++", "ins2">>, <<"rd", "ins2", "">>, <<"idx8", "x">>,
       <<"rd", "ins2++", "addrlo">>, <<"rd", "ins2", "addrhi">> >>

\* the pointer fetch and page-cross read of the read-class (INDIRECT),Y handlers
PtrIndYRead ==
    << <<"rd", "pc", "ins2">>, <<"rd", "ins2++", "addrlo">>, <<"rd", "ins2", "addrhi">>,
       <<"ea", "addr", "y">>, <<"cross", "addr">>, <<"++pc">> >>

\* the pointer fetch of the (ZEROPAGE) handlers
PtrZp ==
    << <<"rd", "pc++", "ins2">>, <<"rd", "ins2++", "addrlo">>, <<"rd", "ins2", "addrhi">> >>

\* AbsIdxRead with the page-cross read made unconditionally
AbsIdxRead_always(i) ==
    << <<"rd", "pc++", "ins23lo">>, <<"rd", "pc", "ins23hi">>, <<"ea", "ins23", i>>,
       <<"rd", "pc", "">>, <<"++pc">> >>

\* operand fetch of the read-class ABSOLUTE,X / ABSOLUTE,Y arithmetic handlers
AbsIdxRead(i) ==
    << <<"rd", "pc++", "ins23lo">>, <<"rd", "pc", "ins23hi">>, <<"ea", "ins23", i>>,
       <<"cross", "ins23">>, <<"++pc">> >>

\* A zero-page store that sets Z and N from the stored register, as a load does
StoreZp_setsFlags(r) == << <<"rd", "pc++", "ins2">>, <<"wr", "ins2", r>>, <<"zn", r>> >>

StoreZp(r) == << <<"rd", "pc++", "ins2">>, <<"wr", "ins2", r>> >>

StoreZpIdx(r, i) ==
    << <<"rd", "pc++", "ins2">>, <<"rd", "ins2", "">>, <<"idx8", i>>, <<"wr", "ins2", r>> >>

StoreAbs(r) ==
    << <<"rd", "pc++", "ins23lo">>, <<"rd", "pc++", "ins23hi">>, <<"wr", "ins23", r>> >>

\* StoreAbsIdx with the read before the write made only on a page cross
StoreAbsIdx_onCross(r, i) ==
    << <<"rd", "pc++", "ins23lo">>, <<"rd", "pc", "ins23hi">>, <<"ea", "ins23", i>>,
       <<"cross", "ins23">>, <<"++pc">>, <<"wr", "ea", r>> >>

\* 9D, 99: ins23x = ins23 + i; readByte(pc++); writeByte(ins23x, a)
StoreAbsIdx(r, i) ==
    << <<"rd", "pc++", "ins23lo">>, <<"rd", "pc", "ins23hi">>, <<"ea", "ins23", i>>,
       <<"rd", "pc++", "">>, <<"wr", "ea", r>> >>

\* readByte(pc); dst = src; setZN           (AA, A8, BA, 8A, 98)
Transfer(dst, src) == << <<"rd", "pc", "">>, <<"mov", dst, src>>, <<"zn", dst>> >>

\* E6 / C6; EE / CE: dummy read, read, modify, setZN, write
RmwZp(op) ==
    << <<"rd", "pc++", "ins2">>, <<"rd", "ins2", "">>, <<"rd", "ins2", "value">>,
       <<op, "value">>, <<"zn", "value">>, <<"wr", "ins2", "value">> >>

\* F6 / D6: two reads at the unindexed address, then the indexed read
RmwZpX(op) ==
    << <<"rd", "pc++", "ins2">>, <<"rd", "ins2", "">>, <<"rd", "ins2", "">>,
       <<"idx8", "x">>, <<"rd", "ins2", "value">>,
       <<op, "value">>, <<"zn", "value">>, <<"wr", "ins2", "value">> >>

RmwAbs(op) ==
    << <<"rd", "pc++", "ins23lo">>, <<"rd", "pc++", "ins23hi">>, <<"rd", "ins23", "">>,
       <<"rd", "ins23", "value">>,
       <<op, "value">>, <<"zn", "value">>, <<"wr", "ins23", "value">> >>

\* FE / DE: a read at the unindexed address, the page-cross read at pc only
\* when the page is crossed, then the indexed read
RmwAbsX(op) ==
    << <<"rd", "pc++", "ins23lo">>, <<"rd", "pc", "ins23hi">>, <<"rd", "ins23", "">>,
       <<"ea", "ins23", "x">>, <<"cross", "ins23">>, <<"++pc">>,
       <<"rd", "ea", "value">>,
       <<op, "value">>, <<"zn", "value">>, <<"wr", "ea", "value">> >>

\* readByte(pc); ++r or --r; setZN          (E8, C8, CA, 88)
IncDecReg(op, r) == << <<"rd", "pc", "">>, <<op, r>>, <<"zn", r>> >>

\* ADC / SBC by addressing mode; op is "adc" or "sbc"
ArithImm(op) == << <<"rd", "pc++", "ins2">>, <<op, "ins2">> >>

ArithZp(op) == << <<"rd", "pc++", "ins2">>, <<"rd", "ins2", "">>, <<op, "ret">> >>

ArithZpX(op) ==
    << <<"rd", "pc++", "ins2">>, <<"rd", "ins2", "">>, <<"idx8", "x">>,
       <<"rd", "ins2", "">>, <<op, "ret">> >>

ArithAbs(op) ==
    << <<"rd", "pc++", "ins23lo">>, <<"rd", "pc++", "ins23hi">>,
       <<"rd", "ins23", "">>, <<op, "ret">> >>

ArithAbsIdx(op, i) == AbsIdxRead(i) \o << <<"rd", "ea", "">>, <<op, "ret">> >>

ArithIndX(op) == PtrIndX \o << <<"rd", "addr", "">>, <<op, "ret">> >>

ArithIndY(op) == PtrIndYRead \o << <<"rd", "ea", "">>, <<op, "ret">> >>

ArithIndZp(op) == PtrZp \o << <<"rd", "addr", "">>, <<op, "ret">> >>

\* 5C with waitForCycles(8): the total instead of the remainder
Nop3Bytes8Cycles_wait8 == << <<"rd", "pc++", "">>, <<"rd", "pc++", "">>, <<"wait", 8>> >>

\* 5C with waitForCycles(4)
Nop3Bytes8Cycles_wait4 == << <<"rd", "pc++", "">>, <<"rd", "pc++", "">>, <<"wait", 4>> >>

\* 5C: readByte(pc++); readByte(pc++); waitForCycles(5)
Nop3Bytes8Cycles == << <<"rd", "pc++", "">>, <<"rd", "pc++", "">>, <<"wait", 5>> >>

\* A flag instruction whose dummy read steps over the following byte
FlagOp_consumesByte(op, mask) == << <<"rd", "pc++", "">>, <<op, mask>> >>

\* readByte(pc); registers.p &= ~mask  /  |= mask
FlagOp(op, mask) == << <<"rd", "pc", "">>, <<op, mask>> >>

\* switch (ins1): the statements of the case, after ins1 = readByte(pc++)
Handler(op) ==
    CASE op = \hA9 -> LoadImm("a")
      [] op = \hA5 -> LoadZp("a")
      [] op = \hB5 -> LoadZpIdx("a", "x")
      [] op = \hAD -> LoadAbs("a")
      [] op = \hBD -> LoadAbsIdx("a", "x")
      [] op = \hB9 -> LoadAbsIdxNoInc("a", "y")
      [] op = \hA1 -> PtrIndX \o << <<"rd", "addr", "a">>, <<"zn", "a">> >>
      [] op = \hB1 -> PtrIndYRead \o << <<"rd", "ea", "a">>, <<"zn", "a">> >>
      [] op = \hA2 -> LoadImm("x")
      [] op = \hA6 -> LoadZp("x")
      [] op = \hB6 -> LoadZpIdx("x", "y")
      [] op = \hAE -> LoadAbs("x")
      [] op = \hBE -> LoadAbsIdxNoInc("x", "y")
      [] op = \hA0 -> LoadImm("y")
      [] op = \hA4 -> LoadZp("y")
      [] op = \hB4 -> LoadZpIdx("y", "x")
      [] op = \hAC -> LoadAbs("y")
      [] op = \hBC -> LoadAbsIdx("y", "x")
      [] op = \h85 -> StoreZp("a")
      [] op = \h95 -> StoreZpIdx("a", "x")
      [] op = \h8D -> StoreAbs("a")
      [] op = \h9D -> StoreAbsIdx("a", "x")
      [] op = \h99 -> StoreAbsIdx("a", "y")
      [] op = \h81 -> PtrIndX \o << <<"wr", "addr", "a">> >>
      [] op = \h91 -> << <<"rd", "pc", "ins2">>, <<"rd", "ins2++", "addrlo">>,
                         <<"rd", "ins2", "addrhi">>, <<"ea", "addr", "y">>,
                         <<"rd", "pc++", "">>, <<"wr", "ea", "a">> >>
      [] op = \h86 -> StoreZp("x")
      [] op = \h96 -> StoreZpIdx("x", "y")
      [] op = \h8E -> StoreAbs("x")
      [] op = \h84 -> StoreZp("y")
      [] op = \h94 -> StoreZpIdx("y", "x")
      [] op = \h8C -> StoreAbs("y")
      [] op = \hAA -> Transfer("x", "a")
      [] op = \hA8 -> Transfer("y", "a")
      [] op = \hBA -> Transfer("x", "sp")
      [] op = \h8A -> Transfer("a", "x")
      [] op = \h9A -> << <<"rd", "pc", "">>, <<"mov", "sp", "x">> >>
      [] op = \h98 -> Transfer("a", "y")
      [] op = \h48 -> << <<"rd", "pc", "">>, <<"push", "a">> >>
      [] op = \h08 -> << <<"rd", "pc", "">>, <<"push", "status">> >>
      [] op = \h68 -> << <<"rd", "pc", "">>, <<"rd", "stack", "">>, <<"pop", "a">>,
                         <<"zn", "a">> >>
      [] op = \h28 -> << <<"rd", "pc", "">>, <<"rd", "stack", "">>, <<"pop", "p">> >>
      [] op = \hE6 -> RmwZp("inc")
      [] op = \hF6 -> RmwZpX("inc")
      [] op = \hEE -> RmwAbs("inc")
      [] op = \hFE -> RmwAbsX("inc")
      [] op = \hE8 -> IncDecReg("inc", "x")
      [] op = \hC8 -> IncDecReg("inc", "y")
      [] op = \hC6 -> RmwZp("dec")
      [] op = \hD6 -> RmwZpX("dec")
      [] op = \hCE -> RmwAbs("dec")
      [] op = \hDE -> RmwAbsX("dec")
      [] op = \hCA -> IncDecReg("dec", "x")
      [] op = \h88 -> IncDecReg("dec", "y")
      [] op = \h69 -> ArithImm("adc")
      [] op = \h65 -> ArithZp("adc")
      [] op = \h75 -> ArithZpX("adc")
      [] op = \h6D -> ArithAbs("adc")
      [] op = \h7D -> ArithAbsIdx("adc", "x")
      [] op = \h79 -> ArithAbsIdx("adc", "y")
      [] op = \h61 -> ArithIndX("adc")
      [] op = \h71 -> ArithIndY("adc")
      [] op = \h72 -> ArithIndZp("adc")
      [] op = \hE9 -> ArithImm("sbc")
      [] op = \hE5 -> ArithZp("sbc")
      [] op = \hF5 -> ArithZpX("sbc")
      [] op = \hED -> ArithAbs("sbc")
      [] op = \hFD -> ArithAbsIdx("sbc", "x")
      [] op = \hF9 -> ArithAbsIdx("sbc", "y")
      [] op = \hE1 -> ArithIndX("sbc")
      [] op = \hF1 -> ArithIndY("sbc")
      [] op = \hF2 -> ArithIndZp("sbc")
      [] op = \h18 -> FlagOp("clr", FLAG_CARRY)
      [] op = \hD8 -> FlagOp("clr", FLAG_DECIMAL)
      [] op = \h58 -> FlagOp("clr", FLAG_IRQDISABLE)
      [] op = \hB8 -> FlagOp("clr", FLAG_OVERFLOW)
      [] op = \h38 -> FlagOp("set", FLAG_CARRY)
      [] op = \hF8 -> FlagOp("set", FLAG_DECIMAL)
      [] op = \h78 -> FlagOp("set", FLAG_IRQDISABLE)
      [] op = \h4C -> << <<"rd", "pc++", "ins23lo">>, <<"rd", "pc++", "ins23hi">>,
                         <<"jmp", "ins23">> >>
      [] op = \h6C -> << <<"rd", "pc++", "ins23lo">>, <<"rd", "pc", "ins23hi">>,
                         <<"rd", "ins23", "">>, <<"rd", "ins23++", "addrlo">>,
                         <<"rd", "ins23", "addrhi">>, <<"jmp", "addr">> >>
      [] op = \h7C -> << <<"rd", "pc++", "ins23lo">>, <<"rd", "pc", "ins23hi">>,
                         <<"rd", "ins23", "">>, <<"idx16", "x">>,
                         <<"rd", "ins23++", "addrlo">>, <<"rd", "ins23", "addrhi">>,
                         <<"jmp", "addr">> >>
      [] op = \h20 -> << <<"rd", "pc++", "ins23lo">>, <<"rd", "stack", "">>,
                         <<"push", "pchi">>, <<"push", "pclo">>,
                         <<"rd", "pc", "ins23hi">>, <<"jmp", "ins23">> >>
      [] op = \h60 -> << <<"rd", "pc", "">>, <<"rd", "stack", "">>, <<"pop", "pclo">>,
                         <<"pop", "pchi">>, <<"rd", "pc++", "">> >>
      [] op = \h00 -> << <<"rd", "pc++", "">>, <<"push", "pchi">>, <<"push", "pclo">>,
                         <<"push", "status">>, <<"rd", "FFFE", "pclo">>,
                         <<"rd", "FFFF", "pchi">> >>
      [] op = \h40 -> << <<"rd", "pc", "">>, <<"rd", "stack", "">>, <<"pop", "p">>,
                         <<"pop", "pclo">>, <<"pop", "pchi">> >>
      [] op = \hEA -> << <<"rd", "pc", "">> >>
      [] op \in {\h02, \h22, \h42, \h62, \h82, \hC2, \hE2} -> << <<"rd", "pc++", "">> >>
      [] op = \h44 -> << <<"rd", "pc++", "ins2">>, <<"rd", "ins2", "">> >>
      [] op \in {\h54, \hD4, \hF4} ->
            << <<"rd", "pc++", "ins2">>, <<"rd", "ins2", "">>, <<"idx8", "x">>,
               <<"rd", "ins2", "">> >>
      [] op \in {\hDC, \hFC} ->
            << <<"rd", "pc++", "ins23lo">>, <<"rd", "pc", "ins23hi">>,
               <<"ea", "ins23", "x">>, <<"++pc">>, <<"rd", "ea", "">> >>
      [] op = \h5C -> Nop3Bytes8Cycles
      [] OTHER -> << >>

----------------------------------------------------------------------------
(* One iteration of the while (true) of loop() *)

\* The machine as the handlers see it: the program's variables, the handler
\* temporaries, and the bytes the floating reads of this iteration will draw.
Machine(rnd) ==
    [pc |-> registers.pc, sp |-> registers.sp, a |-> registers.a, x |-> registers.x,
     y |-> registers.y, p |-> registers.p,
     sysram |-> sysram, rom0 |-> rom0, rom1 |-> rom1, seed |-> seed,
     targettime |-> targettime, cycles |-> cycles, bus |-> << >>,
     ins1 |-> 0, ins2 |-> 0, ins23 |-> 0, ea |-> 0, addr |-> 0, value |-> 0, ret |-> 0,
     rnd |-> rnd, starve |-> FALSE]

\* uint8_t ins1 = readByte(registers.pc++); switch (ins1) { ... }
Iteration(m) ==
    LET m1 == readByte([m EXCEPT !.pc = U16(@ + 1)], m.pc)
        m2 == [m1 EXCEPT !.ins1 = m1.ret]
    IN  Run(m2, Handler(m2.ins1))

\* Every result of one iteration, over the bytes its floating reads can draw
RECURSIVE Outcomes(_)
Outcomes(rnd) ==
    LET r == Iteration(Machine(rnd))
    IN  IF r.starve
        THEN UNION {Outcomes(Append(rnd, v)) : v \in OpenBusBytes}
        ELSE {r}

----------------------------------------------------------------------------
(* The files on the command line.  A file is named by what it holds; its     *)
(* bytes are offset -> byte, a missing offset below its length being 0.      *)

EmptyMem == [i \in {} |-> 0]

\* bytes b[1..n] at offsets off..off+n-1
Place(off, b) == [i \in off..(off + Len(b) - 1) |-> b[i - off + 1]]

\* reset vector $E000 at $1FFC/$1FFD, IRQ/BRK vector $E100 at $1FFE/$1FFF,
\* an RTI at $E100
Vectors == Place(8188, <<\h00, \hE0, \h00, \hE1>>) @@ Place(256, <<\h40>>)

\* The literal end-to-end programs of the specification, at $E000
Scenarios ==
    << <<\hA2, \h05, \hCA, \h02>>,
       <<\hA9, \h7F, \h69, \h01, \h02>>,
       <<\hA9, \hFF, \h69, \h01, \h02>>,
       <<\hA2, \hFF, \h9A, \hA9, \hAA, \h48, \h68, \h02>>,
       <<\h4C, \h05, \hE0, \h02, \h00, \hEA, \h02>>,
       <<\h20, \h06, \hE0, \h02, \h00, \h00, \hA9, \h42, \h60>> >>

\* Register and operand set-ups of the one-instruction programs:
\* <<sp, p, x, y, a, operand byte 1, operand byte 2>>
Setups ==
    << <<\hFF, \h20, \h01, \h01, \h7F, \hFF, \h00>>,
       <<\h00, \hC3, \h00, \h00, \hFF, \h00, \h00>>,
       <<\h80, \h00, \hFF, \hFF, \h00, \h01, \h80>>,
       <<\h7F, \h01, \h02, \h03, \h80, \hFE, \hBF>>,
       <<\hFF, \h30, \h10, \h20, \h01, \hF0, \h7F>>,
       <<\h01, \h4D, \h01, \hFF, \hFF, \hFF, \hFF>>,
       <<\hFE, \hEF, \h7F, \h80, \h01, \h80, \h01>>,
       <<\hFD, \h82, \h01, \h01, \h00, \h00, \h00>> >>

\* LDX #sp; TXS; LDA #p; PHA; LDX #x; LDY #y; LDA #a; PLP; then the instruction
\* under test with its two operand bytes
OneInstruction(op, k) ==
    LET u == Setups[k]
    IN  <<\hA2, u[1], \h9A, \hA9, u[2], \h48, \hA2, u[3], \hA0, u[4], \hA9, u[5], \h28,
          op, u[6], u[7]>>

\* JSR/RTS round trips: <<sp, address of the JSR, target>>; the target holds
\* an RTS (stored there by the program when it is in RAM)
JsrCases ==
    << <<\hFF, \hE010, \hE020>>,
       <<\h00, \hE1FE, \hE300>>,
       <<\h01, \hFFF0, \h0010>>,
       <<\h80, \hE2FD, \hFF00>> >>

\* LDX #sp; TXS; LDA #$60; STA $10; JMP J; at J: JSR target; at target: RTS
JsrRts(k) ==
    LET u == JsrCases[k]
    IN  Place(0, <<\hA2, u[1], \h9A, \hA9, \h60, \h85, \h10, \h4C,
                   u[2] % 256, u[2] \div 256>>)
            @@ Place(u[2] % 8192, <<\h20, u[3] % 256, u[3] \div 256>>)
            @@ (IF u[3] >= 57344 THEN Place(u[3] % 8192, <<\h60>>) ELSE EmptyMem)

\* Initial stack pointers of the PHA runs
PhaStarts == <<\h00, \hFF, \h80, \h01>>

\* LDX #sp; TXS; then PHA in every following byte up to $E3FF
PhaRun(k) ==
    Place(0, <<\hA2, PhaStarts[k], \h9A>>) @@ [i \in 3..1023 |-> \h48]

\* The opcodes with a case of their own in the switch
Implemented ==
    {\hA9, \hA5, \hB5, \hAD, \hBD, \hB9, \hA1, \hB1, \hA2, \hA6, \hB6, \hAE, \hBE,
     \hA0, \hA4, \hB4, \hAC, \hBC, \h85, \h95, \h8D, \h9D, \h99, \h81, \h91, \h86,
     \h96, \h8E, \h84, \h94, \h8C, \hAA, \hA8, \hBA, \h8A, \h9A, \h98, \h48, \h08,
     \h68, \h28, \hE6, \hF6, \hEE, \hFE, \hE8, \hC8, \hC6, \hD6, \hCE, \hDE, \hCA,
     \h88, \h69, \h65, \h75, \h6D, \h7D, \h79, \h61, \h71, \h72, \hE9, \hE5, \hF5,
     \hED, \hFD, \hF9, \hE1, \hF1, \hF2, \h18, \hD8, \h58, \hB8, \h38, \hF8, \h78,
     \h4C, \h6C, \h7C, \h20, \h60, \h00, \h40, \hEA,
     \h02, \h22, \h42, \h62, \h82, \hC2, \hE2, \h44, \h54, \hD4, \hF4, \hDC, \hFC, \h5C}

\* Every opcode under the first set-up, the implemented ones under all of them
FileNames ==
    {<<"scenario", k, 0>> : k \in 1..Len(Scenarios)}
        \cup {<<"one", op, 1>> : op \in 0..255}
        \cup {<<"one", op, k>> : op \in Implemented, k \in 2..Len(Setups)}
        \cup {<<"jsr", k, 0>> : k \in 1..Len(JsrCases)}
        \cup {<<"pha", k, 0>> : k \in 1..Len(PhaStarts)}

FileBytes(f) ==
    CASE f[1] = "scenario" -> Place(0, Scenarios[f[2]]) @@ Vectors
      [] f[1] = "one" -> Place(0, OneInstruction(f[2], f[3])) @@ Vectors
      [] f[1] = "jsr" -> JsrRts(f[2]) @@ Vectors
      [] f[1] = "pha" -> PhaRun(f[2]) @@ Vectors

\* fopen(name, "rb") succeeds
Exists(f) == f \in FileNames

\* fread(rom, 1, 8192, fp) into a zero-initialised array
Fread(f) ==
    LET b == FileBytes(f)
    IN  [i \in {j \in DOMAIN b : j < 8192 /\ b[j] # 0} |-> b[i]]

Missing == <<"missing", 0, 0>>

\* The command lines of the model: no argument, a missing file, one ROM,
\* two ROMs, three arguments
ArgLists ==
    {<< >>, <<Missing>>, <<Missing, <<"scenario", 1, 0>> >>}
        \cup {<<f>> : f \in FileNames}
        \cup {<< <<"scenario", k, 0>>, <<"scenario", Len(Scenarios) + 1 - k, 0>> >> : k \in 1..Len(Scenarios)}
        \cup {<< <<"scenario", 1, 0>>, <<"scenario", 2, 0>>, <<"scenario", 3, 0>> >>}

\* The values getTime() gives at boot; tv_nsec doubles as the srand() seed
BootSec == 100

BootTimes ==
    {[tv_sec |-> BootSec, tv_nsec |-> NSEC_PER_SEC - 1 - 1000 * k] : k \in 0..(NumSeeds - 1)}

----------------------------------------------------------------------------
(* The program *)

\* fin / fout while no function has been applied directly
NoCall == [op |-> "none"]

Init ==
    /\ phase = "Start"
    /\ argv \in ArgLists
    /\ registers = [pc |-> 0, sp |-> 0, a |-> 0, x |-> 0, y |-> 0, p |-> 0]
    /\ sysram = EmptyMem
    /\ rom0 = EmptyMem
    /\ rom1 = EmptyMem
    /\ seed = -1
    /\ targettime = [tv_sec |-> 0, tv_nsec |-> 0]
    /\ cycles = 0
    /\ ins1 = -1
    /\ bus = << >>
    /\ fin = NoCall
    /\ fout = NoCall

\* main() returning 1: wrong argument count, or ROM0 cannot be opened
MainUsage ==
    /\ phase = "Start"
    /\ IF Len(argv) + 1 < 2 \/ Len(argv) + 1 > 3 THEN TRUE ELSE ~Exists(argv[1])
    /\ phase' = "Exit1"
    /\ UNCHANGED <<argv, registers, sysram, rom0, rom1, seed, targettime, cycles,
                   ins1, bus, fin, fout>>

\* main() that only rejects a missing ROM0 argument: argc > 3 is let through
Main_anyArgc ==
    /\ phase = "Start"
    /\ Len(argv) + 1 >= 2
    /\ Exists(argv[1])
    /\ rom0' = Fread(argv[1])
    /\ rom1' = IF Len(argv) + 1 >= 3 THEN Fread(argv[1]) ELSE rom1
    /\ \E t \in BootTimes :
          /\ targettime' = t
          /\ seed' = t.tv_nsec
    /\ sysram' = EmptyMem
    /\ registers' = [registers EXCEPT
                        !.pc = BitOr(RomAt(rom0', 8188), RomAt(rom0', 8189) * 256)]
    /\ phase' = "Running"
    /\ UNCHANGED <<argv, cycles, ins1, bus, fin, fout>>

\* main() up to the call of loop(): both fread()s read argv[1]
Main ==
    /\ phase = "Start"
    /\ Len(argv) + 1 >= 2
    /\ Len(argv) + 1 <= 3
    /\ Exists(argv[1])
    /\ rom0' = Fread(argv[1])
    /\ rom1' = IF Len(argv) + 1 = 3 THEN Fread(argv[1]) ELSE rom1
    /\ \E t \in BootTimes :
          /\ targettime' = t
          /\ seed' = t.tv_nsec
    /\ sysram' = EmptyMem
    /\ registers' = [registers EXCEPT
                        !.pc = BitOr(RomAt(rom0', 8188), RomAt(rom0', 8189) * 256)]
    /\ phase' = "Running"
    /\ UNCHANGED <<argv, cycles, ins1, bus, fin, fout>>

\* One iteration of while (true) in loop()
LoopIteration ==
    /\ phase = "Running"
    /\ \E r \in Outcomes(<< >>) :
          /\ registers' = [pc |-> r.pc, sp |-> r.sp, a |-> r.a, x |-> r.x, y |-> r.y,
                           p |-> r.p]
          /\ sysram' = r.sysram
          /\ rom0' = r.rom0
          /\ rom1' = r.rom1
          /\ targettime' = r.targettime
          /\ cycles' = r.cycles
          /\ ins1' = r.ins1
          /\ bus' = r.bus
    /\ UNCHANGED <<phase, argv, seed, fin, fout>>

Loop ==
    /\ cycles < MaxCycles
    /\ LoopIteration

Next == MainUsage \/ Main \/ Loop

Spec == Init /\ [][Next]_vars

----------------------------------------------------------------------------
(* The memory bus on its own: readByte() and writeByte() applied to a booted *)
(* machine at addresses of every region of the map.                          *)

\* at most MaxBusCycles bus accesses are applied
MaxBusCycles == 2

BusAddrs ==
    {\h0000, \h01FF, \h7FFF, \h8000, \h9ABC, \hA000, \hBFFF, \hC000, \hC001,
     \hCFFD, \hDFFD, \hE000, \hE001, \hEFFD, \hFFFD}

BusValues == {\h00, \hA5}

\* The machine as main() leaves it for the command lines ROM0 and ROM0 ROM1
BusInit ==
    /\ phase = "Running"
    /\ argv \in {<< <<"scenario", 2, 0>> >>,
                 << <<"scenario", 2, 0>>, <<"scenario", 5, 0>> >>}
    /\ rom0 = Fread(argv[1])
    /\ rom1 = IF Len(argv) + 1 = 3 THEN Fread(argv[1]) ELSE EmptyMem
    /\ \E t \in BootTimes :
          /\ targettime = t
          /\ seed = t.tv_nsec
    /\ sysram = EmptyMem
    /\ registers = [pc |-> BitOr(RomAt(rom0, 8188), RomAt(rom0, 8189) * 256),
                    sp |-> 0, a |-> 0, x |-> 0, y |-> 0, p |-> 0]
    /\ cycles = 0
    /\ ins1 = -1
    /\ bus = << >>
    /\ fin = NoCall
    /\ fout = NoCall

BusRead ==
    /\ cycles < MaxBusCycles
    /\ \E addr \in BusAddrs, v \in OpenBusBytes :
          LET r == readByte(Machine(<<v>>), addr)
          IN  /\ fin' = [op |-> "R", addr |-> addr]
              /\ fout' = [op |-> "R", ret |-> r.ret]
              /\ registers' = [pc |-> r.pc, sp |-> r.sp, a |-> r.a, x |-> r.x,
                               y |-> r.y, p |-> r.p]
              /\ sysram' = r.sysram
              /\ rom0' = r.rom0
              /\ rom1' = r.rom1
              /\ targettime' = r.targettime
              /\ cycles' = r.cycles
              /\ bus' = r.bus
    /\ UNCHANGED <<phase, argv, seed, ins1>>

BusWrite ==
    /\ cycles < MaxBusCycles
    /\ \E addr \in BusAddrs, value \in BusValues :
          LET r == writeByte(Machine(<< >>), addr, value)
          IN  /\ fin' = [op |-> "W", addr |-> addr, value |-> value]
              /\ fout' = [op |-> "W"]
              /\ registers' = [pc |-> r.pc, sp |-> r.sp, a |-> r.a, x |-> r.x,
                               y |-> r.y, p |-> r.p]
              /\ sysram' = r.sysram
              /\ rom0' = r.rom0
              /\ rom1' = r.rom1
              /\ targettime' = r.targettime
              /\ cycles' = r.cycles
              /\ bus' = r.bus
    /\ UNCHANGED <<phase, argv, seed, ins1>>

BusNext == BusRead \/ BusWrite

BusSpec == BusInit /\ [][BusNext]_vars

----------------------------------------------------------------------------
(* The ALU microcode on its own: ucodeAddWithCarry() and ucodeSubWithCarry() *)
(* applied to operands and flags drawn at the start.                         *)

AluBytes == {\h00, \h01, \h02, \h40, \h7E, \h7F, \h80, \h81, \hFE, \hFF}

AluInit ==
    /\ phase = "Running"
    /\ argv = << <<"scenario", 2, 0>> >>
    /\ rom0 = Fread(argv[1])
    /\ rom1 = EmptyMem
    /\ targettime = [tv_sec |-> BootSec, tv_nsec |-> 0]
    /\ seed = 0
    /\ sysram = EmptyMem
    /\ registers = [pc |-> BitOr(RomAt(rom0, 8188), RomAt(rom0, 8189) * 256),
                    sp |-> 0, a |-> 0, x |-> 0, y |-> 0, p |-> 0]
    /\ cycles = 0
    /\ ins1 = -1
    /\ bus = << >>
    /\ \E a \in AluBytes, b \in AluBytes, p \in Byte :
          fin = [op |-> "alu", a |-> a, b |-> b, p |-> p]
    /\ fout = NoCall

AluAdd ==
    /\ fout = NoCall
    /\ LET r == ucodeAddWithCarry(fin.a, fin.b, fin.p)
       IN  fout' = [op |-> "adc", result |-> r.result, flags |-> r.flags]
    /\ UNCHANGED <<phase, argv, registers, sysram, rom0, rom1, seed, targettime,
                   cycles, ins1, bus, fin>>

AluSub ==
    /\ fout = NoCall
    /\ LET r == ucodeSubWithCarry(fin.a, fin.b, fin.p)
       IN  fout' = [op |-> "sbc", result |-> r.result, flags |-> r.flags]
    /\ UNCHANGED <<phase, argv, registers, sysram, rom0, rom1, seed, targettime,
                   cycles, ins1, bus, fin>>

\* ucodeSubWithCarry() of the same operand applied to the result of the
\* ucodeAddWithCarry() call, after a CLC (cin = 0) or a SEC (cin = 1)
AluSubBack ==
    /\ fout.op = "adc"
    /\ \E cin \in 0..1 :
          LET p1 == IF cin = 1 THEN BitOr(fout.flags, FLAG_CARRY)
                               ELSE BitClear(fout.flags, FLAG_CARRY)
              r == ucodeSubWithCarry(fout.result, fin.b, p1)
          IN  fout' = [op |-> "adc-sbc", adc |-> fout, cin |-> cin,
                       result |-> r.result, flags |-> r.flags]
    /\ UNCHANGED <<phase, argv, registers, sysram, rom0, rom1, seed, targettime,
                   cycles, ins1, bus, fin>>

AluNext == AluAdd \/ AluSub \/ AluSubBack

AluSpec == AluInit /\ [][AluNext]_vars

----------------------------------------------------------------------------
(* The stack microcode on its own: ucodePush() and ucodePop() applied to a   *)
(* booted machine from every stack pointer.                                  *)

\* at most MaxStackOps pushes and pops are applied
MaxStackOps == 3

StackValues == {\h00, \hAA}

StackInit ==
    /\ phase = "Running"
    /\ argv = << <<"scenario", 4, 0>> >>
    /\ rom0 = Fread(argv[1])
    /\ rom1 = EmptyMem
    /\ \E t \in BootTimes :
          /\ targettime = t
          /\ seed = t.tv_nsec
    /\ sysram = EmptyMem
    /\ \E sp \in Byte :
          registers = [pc |-> BitOr(RomAt(rom0, 8188), RomAt(rom0, 8189) * 256),
                       sp |-> sp, a |-> 0, x |-> 0, y |-> 0, p |-> 0]
    /\ cycles = 0
    /\ ins1 = -1
    /\ bus = << >>
    /\ fin = NoCall
    /\ fout = NoCall

StackPush ==
    /\ cycles < MaxStackOps
    /\ \E value \in StackValues :
          LET r == ucodePush(Machine(<< >>), value)
          IN  /\ fin' = [op |-> "push", value |-> value, sp |-> registers.sp]
              /\ fout' = [op |-> "push"]
              /\ registers' = [pc |-> r.pc, sp |-> r.sp, a |-> r.a, x |-> r.x,
                               y |-> r.y, p |-> r.p]
              /\ sysram' = r.sysram
              /\ rom0' = r.rom0
              /\ rom1' = r.rom1
              /\ targettime' = r.targettime
              /\ cycles' = r.cycles
              /\ bus' = r.bus
    /\ UNCHANGED <<phase, argv, seed, ins1>>

StackPop ==
    /\ cycles < MaxStackOps
    /\ LET r == ucodePop(Machine(<< >>))
       IN  /\ fin' = [op |-> "pop", sp |-> registers.sp]
           /\ fout' = [op |-> "pop", ret |-> r.ret]
           /\ registers' = [pc |-> r.pc, sp |-> r.sp, a |-> r.a, x |-> r.x,
                            y |-> r.y, p |-> r.p]
           /\ sysram' = r.sysram
           /\ rom0' = r.rom0
           /\ rom1' = r.rom1
           /\ targettime' = r.targettime
           /\ cycles' = r.cycles
           /\ bus' = r.bus
    /\ UNCHANGED <<phase, argv, seed, ins1>>

StackNext == StackPush \/ StackPop

StackSpec == StackInit /\ [][StackNext]_vars

----------------------------------------------------------------------------
(* The program on the ROMs of consecutive PHAs, run for LDX, TXS and MaxPha  *)
(* PHA instructions.                                                         *)

MaxPha == 256

PhaInit ==
    /\ phase = "Start"
    /\ argv \in {<< <<"pha", k, 0>> >> : k \in 1..Len(PhaStarts)}
    /\ registers = [pc |-> 0, sp |-> 0, a |-> 0, x |-> 0, y |-> 0, p |-> 0]
    /\ sysram = EmptyMem
    /\ rom0 = EmptyMem
    /\ rom1 = EmptyMem
    /\ seed = -1
    /\ targettime = [tv_sec |-> 0, tv_nsec |-> 0]
    /\ cycles = 0
    /\ ins1 = -1
    /\ bus = << >>
    /\ fin = NoCall
    /\ fout = NoCall

\* LDX #sp and TXS take 4 cycles, every PHA 3
PhaLoop ==
    /\ cycles < 4 + 3 * MaxPha
    /\ LoopIteration

PhaNext == Main \/ PhaLoop

PhaSpec == PhaInit /\ [][PhaNext]_vars

----------------------------------------------------------------------------
(* The pacer alone: waitForCycles() on deadlines and clock readings drawn    *)
(* from normalised timespecs around the boot second.                         *)

MaxPacerCycles == 6

\* C's / and % on a positive divisor: the quotient truncates towards zero
CDiv(a, b) == IF a >= 0 THEN a \div b ELSE -((-a) \div b)

CRem(a, b) == a - b * CDiv(a, b)

\* subTime(from, amount)
subTime(from, amount) ==
    LET sec1 == from.tv_sec - amount.tv_sec
        nsec1 == from.tv_nsec - amount.tv_nsec
        sec2 == sec1 + CDiv(nsec1, 1000000000)
        nsec2 == CRem(nsec1, 1000000000)
    IN  IF nsec2 < 0
        THEN [tv_sec |-> sec2 - 1, tv_nsec |-> nsec2 + 1000000000]
        ELSE [tv_sec |-> sec2, tv_nsec |-> nsec2]

\* waitFor(amount): nanosleep() suspends for the amount, or fails with EINVAL
\* at once when tv_sec is negative or tv_nsec is outside 0..999999999
waitFor(amount) ==
    [sleep |-> /\ amount.tv_sec >= 0
               /\ amount.tv_nsec >= 0
               /\ amount.tv_nsec <= 999999999,
     amount |-> amount]

\* waitUntil(target), with curtime the value getTime() stored
waitUntil(target, curtime) ==
    IF curtime.tv_sec > target.tv_sec
    THEN [sleep |-> FALSE, amount |-> target]
    ELSE IF curtime.tv_nsec = target.tv_nsec /\ curtime.tv_nsec >= target.tv_nsec
         THEN [sleep |-> FALSE, amount |-> target]
         ELSE waitFor(subTime(target, curtime))

\* deadlines the pacer starts from
PacerDeadlines ==
    [tv_sec : BootSec .. BootSec + 1, tv_nsec : {0, 500, 999999500}]

\* readings of the monotonic clock
PacerClock ==
    [tv_sec : BootSec - 1 .. BootSec + 2,
     tv_nsec : {0, 250, 750, 1750, 999999750, 999999999}]

PacerInit ==
    /\ phase = "Start"
    /\ argv = << >>
    /\ registers = [pc |-> 0, sp |-> 0, a |-> 0, x |-> 0, y |-> 0, p |-> 0]
    /\ sysram = EmptyMem
    /\ rom0 = EmptyMem
    /\ rom1 = EmptyMem
    /\ seed = -1
    /\ targettime \in PacerDeadlines
    /\ cycles = 0
    /\ ins1 = -1
    /\ bus = << >>
    /\ fin = NoCall
    /\ fout = NoCall

\* waitForCycles(n): the deadline moves on, the clock is read, waitUntil()
\* decides on the sleep.  The program calls it with n = 1 and n = 5.
PacerWaitForCycles ==
    /\ cycles < MaxPacerCycles
    /\ \E n \in {1, 5}, curtime \in PacerClock :
          LET r == waitForCycles(Machine(<< >>), n)
          IN  /\ targettime' = r.targettime
              /\ cycles' = r.cycles
              /\ fin' = [op |-> "waitUntil", target |-> r.targettime,
                         curtime |-> curtime]
              /\ fout' = waitUntil(r.targettime, curtime)
    /\ UNCHANGED <<phase, argv, registers, sysram, rom0, rom1, seed, ins1, bus>>

PacerNext == PacerWaitForCycles

PacerSpec == PacerInit /\ [][PacerNext]_vars

----------------------------------------------------------------------------
(* Properties *)

\* bit i of byte v
Bit(v, i) == (v \div (2 ^ i)) % 2

\* sysram[a] of the array the pair (overlay, seed) stands for
RamByte(ram, sd, a) == IF a \in DOMAIN ram THEN ram[a] ELSE BootRam(sd, a)

\* rom[off] of the array the overlay stands for
RomByte(rom, off) == IF off \in DOMAIN rom THEN rom[off] ELSE 0

\* C1: once opcode $02 has been fetched the machine is halted: no later step
\* makes a bus access, ticks the pacer or changes a register.
C1_HaltIsTerminal ==
    [][ins1 = \h02 => UNCHANGED <<registers, cycles, targettime, bus>>]_vars

\* C2: executing opcode $02 consumes exactly one byte (PC = address of the $02
\* byte + 1); the program A2 05 CA 02 at $E000 ends with PC = $E004, X = $04,
\* Z = 0, N = 0.
C2_HaltConsumesOneByte ==
    (phase = "Running" /\ ins1 = \h02) =>
        /\ registers.pc = U16(bus[1].addr + 1)
        /\ (argv = << <<"scenario", 1, 0>> >> /\ bus[1].addr = \hE003) =>
              /\ registers.pc = \hE004
              /\ registers.x = \h04
              /\ Bit(registers.p, 1) = 0
              /\ Bit(registers.p, 7) = 0

\* C3: every bus read and write of an instruction, at whatever address,
\* advances the pacer by exactly one cycle, and the first of them is the
\* opcode fetch, a read at PC.
C3_OneCyclePerAccess ==
    [][phase = "Running" =>
          /\ Len(bus') >= 1
          /\ bus'[1].kind = "R"
          /\ bus'[1].addr = registers.pc
          /\ bus'[1].value = ins1'
          /\ bus'[1].cycles = cycles + 1
          /\ \A i \in 2..Len(bus') : bus'[i].cycles = bus'[i - 1].cycles + 1]_vars

\* C3 witness: an instruction has written to the unmapped window $B000-$BFFF
\* and another access followed it
C3_Witness ==
    /\ phase = "Running"
    /\ \E i \in 1..Len(bus) : bus[i].kind = "W" /\ bus[i].addr \div 4096 = 11

\* The reference cycle counts C4 lists, by opcode
RefCycles2 == {\hAA, \hA8, \hBA, \h8A, \h9A, \h98, \hE8, \hC8, \hCA, \h88, \h18, \hD8,
               \h58, \hB8, \h38, \hF8, \h78, \hEA, \hA9, \h69, \hE9}

RefCycles3 == {\hA5, \h65, \hE5, \h85, \h48, \h08, \h4C}

RefCycles4 == {\hB5, \h75, \hF5, \hAD, \h6D, \hED, \h95, \h8D, \h68, \h28}

RefCycles5 == {\h72, \hF2, \h9D, \h99, \hE6, \hC6}

RefCycles6 == {\hA1, \h61, \hE1, \h81, \h91, \hF6, \hD6, \hEE, \hCE, \h20, \h60, \h40}

RefCycles7 == {\hFE, \hDE, \h00}

\* 4, plus one when base + index crosses a page
RefCycles4X == {\hBD, \h7D, \hFD}

RefCycles4Y == {\hB9, \h79, \hF9}

\* 5, plus one when pointer + Y crosses a page
RefCycles5Y == {\hB1, \h71, \hF1}

Crossed(lo, idx) == IF lo + idx > 255 THEN 1 ELSE 0

\* C4: the number of bus accesses of an instruction, opcode fetch included,
\* equals the reference cycle count of its opcode.
C4_CyclesMatchReference ==
    phase = "Running" =>
        /\ ins1 \in RefCycles2 => Len(bus) = 2
        /\ ins1 \in RefCycles3 => Len(bus) = 3
        /\ ins1 \in RefCycles4 => Len(bus) = 4
        /\ ins1 \in RefCycles5 => Len(bus) = 5
        /\ ins1 \in RefCycles6 => Len(bus) = 6
        /\ ins1 \in RefCycles7 => Len(bus) = 7
        /\ ins1 \in RefCycles4X => Len(bus) = 4 + Crossed(bus[2].value, registers.x)
        /\ ins1 \in RefCycles4Y => Len(bus) = 4 + Crossed(bus[2].value, registers.y)
        /\ ins1 \in RefCycles5Y => Len(bus) = 5 + Crossed(bus[3].value, registers.y)

\* C5: a read returns the backing byte the top nibble selects -- sysram[addr]
\* below $8000, rom1[addr & $1FFF] in $C000-$DFFF, rom0[addr & $1FFF] from
\* $E000 -- and changes no RAM, no ROM and no register.
C5_ReadBackingByte ==
    [][fin'.op = "R" =>
          LET a == fin'.addr
          IN  /\ a < 32768 => fout'.ret = RamByte(sysram, seed, a)
              /\ (a >= 49152 /\ a < 57344) => fout'.ret = RomByte(rom1, a - 49152)
              /\ a >= 57344 => fout'.ret = RomByte(rom0, a - 57344)
              /\ UNCHANGED <<sysram, rom0, rom1, registers>>]_vars

\* C5 witness: a read of $DFFD returned rom1[$1FFD], the non-zero high byte of
\* the reset vector of the image
C5_Witness ==
    /\ fin.op = "R" /\ fin.addr = \hDFFD /\ fout.ret = \hE0
    /\ RomByte(rom1, 8189) = \hE0

\* the value the writes of a bus log leave at RAM address a (old if none)
RECURSIVE LastWrite(_, _, _)
LastWrite(log, a, old) ==
    IF log = << >> THEN old
    ELSE LastWrite(Tail(log), a,
                   IF Head(log).kind = "W" /\ Head(log).addr = a THEN Head(log).value
                   ELSE old)

\* C6: a write changes exactly sysram[addr] when addr is in $0000-$7FFF and no
\* memory at all when addr is in $8000-$FFFF, so ROM0 and ROM1 keep the images
\* loaded at boot whatever the instructions do.
C6_WriteFrame ==
    [][phase = "Running" =>
          /\ rom0' = rom0
          /\ rom1' = rom1
          /\ \A a \in DOMAIN sysram \cup DOMAIN sysram'
                    \cup {bus'[i].addr : i \in 1..Len(bus')} :
                a < 32768 =>
                    RamByte(sysram', seed', a)
                        = LastWrite(bus', a, RamByte(sysram, seed, a))
          /\ \A a \in DOMAIN sysram' : a < 32768]_vars

\* C6 witness: an instruction has written to ROM0 space and to RAM
C6_Witness ==
    /\ phase = "Running"
    /\ \E i \in 1..Len(bus) : bus[i].kind = "W" /\ bus[i].addr >= 57344
    /\ DOMAIN sysram # {}
    /\ rom0 = Fread(argv[1])

\* C7: a read in $8000-$BFFF returns a byte that is neither $00 nor $FF.
C7_OpenBusNotZeroNotFF ==
    (fin.op = "R" /\ fin.addr >= 32768 /\ fin.addr < 49152) =>
        (fout.ret # \h00 /\ fout.ret # \hFF)

\* C9: ADC gives (a + b + C) mod 256, C = carry out of bit 7, V = the operands
\* agree in sign and the result does not, Z and N of the result, and leaves
\* I, D, B and bit 5 alone.
C9_AdcResultAndFlags ==
    fout.op = "adc" =>
        LET c == fin.p % 2
            sum == fin.a + fin.b + c
            r == fout.result
            q == fout.flags
        IN  /\ r = sum % 256
            /\ Bit(q, 0) = (IF sum > 255 THEN 1 ELSE 0)
            /\ Bit(q, 6) = (IF Bit(fin.a, 7) # Bit(r, 7) /\ Bit(fin.b, 7) # Bit(r, 7)
                            THEN 1 ELSE 0)
            /\ Bit(q, 1) = (IF r = 0 THEN 1 ELSE 0)
            /\ Bit(q, 7) = Bit(r, 7)
            /\ \A i \in 2..5 : Bit(q, i) = Bit(fin.p, i)
            /\ (fin.a = \h7F /\ fin.b = \h01 /\ c = 0) =>
                  (r = \h80 /\ Bit(q, 7) = 1 /\ Bit(q, 1) = 0 /\ Bit(q, 6) = 1
                   /\ Bit(q, 0) = 0)
            /\ (fin.a = \hFF /\ fin.b = \h01 /\ c = 0) =>
                  (r = \h00 /\ Bit(q, 1) = 1 /\ Bit(q, 7) = 0 /\ Bit(q, 6) = 0
                   /\ Bit(q, 0) = 1)

\* C9 witness: $7F + $01 with C = 0 and D set has given $80 with V set
C9_Witness ==
    /\ fout.op = "adc"
    /\ fin.a = \h7F /\ fin.b = \h01 /\ fin.p = \h28
    /\ fout.result = \h80 /\ Bit(fout.flags, 6) = 1

\* C10: sbc(a, b, p) gives the result byte and the P that adc(a, b XOR $FF, p)
\* gives.
C10_SbcIsAdcOfComplement ==
    fout.op = "sbc" =>
        LET r == ucodeAddWithCarry(fin.a, BitXor(fin.b, 255), fin.p)
        IN  fout.result = r.result /\ fout.flags = r.flags

\* C10 witness: $00 - $01 with C = 0 has given $FE with C clear, as
\* $00 + $FE + 0 does
C10_Witness ==
    /\ fout.op = "sbc"
    /\ fin.a = \h00 /\ fin.b = \h01 /\ fin.p = \h20
    /\ fout.result = \hFE /\ Bit(fout.flags, 0) = 0 /\ Bit(fout.flags, 7) = 1

\* C11 as stated: adc(a, b) with carry c, then sbc(r, b) with the carry set
\* back to c, gives a again and leaves C = c.
C11_AdcSbcSameCarry ==
    (fout.op = "adc-sbc" /\ fout.cin = fin.p % 2) =>
        (fout.result = fin.a /\ Bit(fout.flags, 0) = fin.p % 2)

\* C11 amended: adc(a, b) with carry c, then sbc(r, b) with the carry set to
\* the complement of c, gives a again; C is then the complement of the carry
\* out of the adc.
C11_AdcSbcComplementCarry ==
    (fout.op = "adc-sbc" /\ fout.cin = 1 - (fin.p % 2)) =>
        /\ fout.result = fin.a
        /\ Bit(fout.flags, 0) = 1 - Bit(fout.adc.flags, 0)
        /\ fout.adc.result = (fin.a + fin.b + (fin.p % 2)) % 256

\* C11 witness: $FF + $01 with C = 0 gave $00 with C = 1, and $00 - $01 with
\* C = 1 gave $FF back with C = 0
C11_Witness ==
    /\ fout.op = "adc-sbc"
    /\ fin.a = \hFF /\ fin.b = \h01 /\ fin.p = \h00
    /\ fout.cin = 1
    /\ fout.adc.result = \h00 /\ Bit(fout.adc.flags, 0) = 1
    /\ fout.result = \hFF /\ Bit(fout.flags, 0) = 0

\* C12: push(v) writes v at $0100|SP and then decrements SP mod 256; pop
\* increments SP mod 256 and then reads $0100|SP; a push followed by a pop
\* returns the pushed byte and restores SP, also across the $00/$FF wrap, and
\* every stack access is in $0100-$01FF.
C12_PushPop ==
    [][/\ fin'.op = "push" =>
              /\ Len(bus') = 1
              /\ bus'[1].kind = "W"
              /\ bus'[1].addr = 256 + registers.sp
              /\ bus'[1].value = fin'.value
              /\ RamByte(sysram', seed, 256 + registers.sp) = fin'.value
              /\ registers'.sp = (IF registers.sp = 0 THEN 255 ELSE registers.sp - 1)
       /\ fin'.op = "pop" =>
              /\ registers'.sp = (IF registers.sp = 255 THEN 0 ELSE registers.sp + 1)
              /\ Len(bus') = 1
              /\ bus'[1].kind = "R"
              /\ bus'[1].addr = 256 + registers'.sp
              /\ fout'.ret = RamByte(sysram, seed, 256 + registers'.sp)
              /\ sysram' = sysram
       /\ (fin.op = "push" /\ fin'.op = "pop") =>
              /\ fout'.ret = fin.value
              /\ registers'.sp = fin.sp
              /\ (fin.sp = \hFF /\ fin.value = \hAA) =>
                    RamByte(sysram', seed, \h01FF) = \hAA
       /\ \A i \in 1..Len(bus') : bus'[i].addr \in 256..511
       /\ [registers' EXCEPT !.sp = 0] = [registers EXCEPT !.sp = 0]]_vars

\* C12 witness: with SP = $00, $AA was pushed at $0100 (SP wrapped to $FF) and
\* popped back from $0100, SP returning to $00
C12_Witness ==
    /\ fin.op = "pop" /\ fin.sp = \hFF
    /\ registers.sp = \h00
    /\ bus[1].addr = \h0100
    /\ fout.ret = \hAA
    /\ RamByte(sysram, seed, \h0100) = \hAA

\* C13: from any initial SP, 256 PHAs in a row bring SP back to its initial
\* value, write each address of $0100-$01FF exactly once (every PHA makes one
\* write, and after k <= 256 of them k distinct addresses have been written)
\* and write nowhere else.
C13_Pha256 ==
    (phase = "Running" /\ ins1 = \h48) =>
        LET k == (cycles - 4) \div 3
            sp0 == PhaStarts[argv[1][2]]
        IN  k <= 256 =>
              /\ Len(bus) = 3
              /\ bus[1].kind = "R" /\ bus[2].kind = "R" /\ bus[3].kind = "W"
              /\ Cardinality(DOMAIN sysram) = k
              /\ DOMAIN sysram \subseteq 256..511
              /\ registers.sp = (sp0 + 256 - k) % 256
              /\ k = 256 => (registers.sp = sp0 /\ DOMAIN sysram = 256..511)

\* C13 witness: the 256th PHA of the run that started with SP = $80 has
\* executed
C13_Witness ==
    /\ phase = "Running" /\ ins1 = \h48
    /\ cycles = 4 + 3 * 256
    /\ PhaStarts[argv[1][2]] = \h80
    /\ registers.sp = \h80
    /\ DOMAIN sysram = 256..511

\* C14: a JSR leaves A, X, Y and P alone, and the RTS executed immediately
\* after it (at its target) ends with PC = address of the JSR + 3, SP back at
\* its value before the JSR, and A, X, Y and P unmodified.
C14_JsrRtsRoundTrip ==
    [][/\ (phase = "Running" /\ ins1' = \h20) =>
              /\ registers'.sp = (registers.sp + 254) % 256
              /\ [registers' EXCEPT !.pc = 0, !.sp = 0]
                    = [registers EXCEPT !.pc = 0, !.sp = 0]
       /\ (phase = "Running" /\ ins1 = \h20 /\ ins1' = \h60) =>
              /\ registers'.pc = (bus[1].addr + 3) % 65536
              /\ registers'.sp = (registers.sp + 2) % 256
              /\ registers'.sp = bus[4].addr - 256
              /\ [registers' EXCEPT !.pc = 0, !.sp = 0]
                    = [registers EXCEPT !.pc = 0, !.sp = 0]]_vars

\* C14 witness: the JSR at $E1FE, executed with SP = $00, has been returned
\* from: PC = $E201 and SP = $00 again
C14_Witness ==
    /\ phase = "Running" /\ ins1 = \h60
    /\ argv = << <<"jsr", 2, 0>> >>
    /\ registers.pc = \hE201
    /\ registers.sp = \h00
    /\ bus[4].addr = \h01FF /\ bus[5].addr = \h0100

\* C15: JSR at J with stack pointer S writes the high byte of J+2 at $0100|S,
\* then the low byte of J+2 at $0100|((S-1) mod 256), and ends with
\* SP = (S-2) mod 256 and PC = the 16-bit operand.
C15_JsrPushesReturnAddress ==
    [][(phase = "Running" /\ ins1' = \h20) =>
          LET J == registers.pc
              S == registers.sp
              b == bus'
          IN  /\ Len(b) = 6
              /\ b[2].kind = "R" /\ b[2].addr = (J + 1) % 65536
              /\ b[4].kind = "W" /\ b[4].addr = 256 + S
              /\ b[4].value = ((J + 2) % 65536) \div 256
              /\ b[5].kind = "W" /\ b[5].addr = 256 + ((S + 255) % 256)
              /\ b[5].value = (J + 2) % 256
              /\ b[6].kind = "R" /\ b[6].addr = (J + 2) % 65536
              /\ \A i \in {1, 2, 3, 6} : b[i].kind = "R"
              /\ registers'.sp = (S + 254) % 256
              /\ registers'.pc = b[2].value + 256 * b[6].value]_vars

\* C15 witness: the JSR at $E1FE with SP = $00 wrote $E2 at $0100 and $00 at
\* $01FF and jumped to $E300
C15_Witness ==
    /\ phase = "Running" /\ ins1 = \h20
    /\ bus[1].addr = \hE1FE
    /\ bus[4].addr = \h0100 /\ bus[4].value = \hE2
    /\ bus[5].addr = \h01FF /\ bus[5].value = \h00
    /\ registers.sp = \hFE
    /\ registers.pc = \hE300

\* C16: after its opcode fetch at B, BRK reads B+1, pushes the high byte of
\* B+2, the low byte of B+2 and P | $10 | $20, reads $FFFE and $FFFF, and ends
\* with PC = mem[$FFFE] | (mem[$FFFF] << 8) and SP three lower (mod 256).
C16_BrkSequence ==
    [][(phase = "Running" /\ ins1' = \h00) =>
          LET B == registers.pc
              S == registers.sp
              b == bus'
          IN  /\ Len(b) = 7
              /\ b[1].kind = "R" /\ b[1].addr = B
              /\ b[2].kind = "R" /\ b[2].addr = (B + 1) % 65536
              /\ b[3].kind = "W" /\ b[3].addr = 256 + S
              /\ b[3].value = ((B + 2) % 65536) \div 256
              /\ b[4].kind = "W" /\ b[4].addr = 256 + ((S + 255) % 256)
              /\ b[4].value = (B + 2) % 256
              /\ b[5].kind = "W" /\ b[5].addr = 256 + ((S + 254) % 256)
              /\ b[5].value = BitOr(registers.p, 48)
              /\ b[6].kind = "R" /\ b[6].addr = \hFFFE
              /\ b[7].kind = "R" /\ b[7].addr = \hFFFF
              /\ registers'.pc = RomByte(rom0, 8190) + 256 * RomByte(rom0, 8191)
              /\ registers'.sp = (S + 253) % 256]_vars

\* C16 witness: a BRK executed with SP = $01 pushed at $0101, $0100 and $01FF
\* and went to the vector $E100
C16_Witness ==
    /\ phase = "Running" /\ ins1 = \h00
    /\ Len(bus) = 7
    /\ bus[3].addr = \h0101 /\ bus[4].addr = \h0100 /\ bus[5].addr = \h01FF
    /\ registers.sp = \hFE
    /\ registers.pc = \hE100

\* C17: after a BRK the I flag (bit 2 of P) is set.
C17_BrkSetsI ==
    (phase = "Running" /\ ins1 = \h00) => Bit(registers.p, 2) = 1

\* C18: the status byte PHP or BRK writes to the stack has bit 5 = 1 and
\* bit 4 = 1, and its other six bits are those of P.
C18_PushedStatus ==
    [][(phase = "Running" /\ ins1' \in {\h08, \h00}) =>
          LET w == IF ins1' = \h08 THEN bus'[3] ELSE bus'[5]
          IN  /\ w.kind = "W"
              /\ w.addr \in 256..511
              /\ Bit(w.value, 5) = 1
              /\ Bit(w.value, 4) = 1
              /\ \A i \in {0, 1, 2, 3, 6, 7} : Bit(w.value, i) = Bit(registers.p, i)
              /\ registers'.p = registers.p]_vars

\* C18 witness: PHP executed with P = $C3 (bits 4 and 5 clear) wrote $F3
C18_Witness ==
    /\ phase = "Running" /\ ins1 = \h08
    /\ registers.p = \hC3
    /\ bus[3].kind = "W" /\ bus[3].value = \hF3

\* C19: when loop() is entered, before the first opcode fetch, P = $20.
C19_BootP ==
    (phase = "Running" /\ ins1 = -1) => registers.p = \h20

\* C20: the reset sequence sets PC to rom0[$1FFC] | (rom0[$1FFD] << 8) by bus
\* reads at $FFFC and $FFFD, so two cycles have elapsed when the first opcode
\* fetch begins.
C20_ResetReads ==
    (phase = "Running" /\ ins1 = -1) =>
        /\ registers.pc = RomByte(rom0, 8188) + 256 * RomByte(rom0, 8189)
        /\ cycles = 2
        /\ Len(bus) = 2
        /\ bus[1].kind = "R" /\ bus[1].addr = \hFFFC
        /\ bus[2].kind = "R" /\ bus[2].addr = \hFFFD

\* The memory INC / DEC opcodes by addressing mode
RmwOps == {\hE6, \hC6, \hF6, \hD6, \hEE, \hCE, \hFE, \hDE}

\* The effective target address of a memory INC / DEC, from its operand bytes
\* (bus log b of the instruction) and X
RmwTarget(op, b, x) ==
    CASE op \in {\hE6, \hC6} -> b[2].value
      [] op \in {\hF6, \hD6} -> (b[2].value + x) % 256
      [] op \in {\hEE, \hCE} -> b[2].value + 256 * b[3].value
      [] op \in {\hFE, \hDE} -> (b[2].value + 256 * b[3].value + x) % 65536

\* number of operand bytes of a memory INC / DEC
RmwOperands(op) == IF op \in {\hE6, \hC6, \hF6, \hD6} THEN 1 ELSE 2

\* C21: every memory INC and DEC makes exactly three accesses at its effective
\* target address: a read, a dummy read, then a write of the value plus or
\* minus one mod 256.
C21_RmwThreeAccesses ==
    [][(phase = "Running" /\ ins1' \in RmwOps) =>
          LET b == bus'
              n == Len(b)
              t == RmwTarget(ins1', b, registers.x)
              at == {i \in (RmwOperands(ins1') + 2)..n : b[i].addr = t}
              d == IF ins1' \in {\hE6, \hF6, \hEE, \hFE} THEN 1 ELSE 255
          IN  /\ at = {n - 2, n - 1, n}
              /\ b[n - 2].kind = "R" /\ b[n - 1].kind = "R" /\ b[n].kind = "W"
              /\ b[n].value = (b[n - 1].value + d) % 256]_vars

\* The read-class indexed opcodes: abs,X; abs,Y; (ind),Y
ReadAbsX == {\hBD, \hBC, \h7D, \hFD}

ReadAbsY == {\hB9, \hBE, \h79, \hF9}

ReadIndY == {\hB1, \h71, \hF1}

\* C22: a read-class indexed instruction (LDA/LDX/LDY/ADC/SBC abs,X, abs,Y,
\* (ind),Y) makes the extra dummy read iff base + index has another high
\* byte than base; LDA $00FF,X with X = 1 makes 5 accesses, LDA $0000,X with
\* X = 1 makes 4.
C22_ReadClassPageCross ==
    [][(phase = "Running" /\ ins1' \in ReadAbsX \cup ReadAbsY \cup ReadIndY) =>
          LET b == bus'
              lo == IF ins1' \in ReadIndY THEN b[3].value ELSE b[2].value
              hi == IF ins1' \in ReadIndY THEN b[4].value ELSE b[3].value
              idx == IF ins1' \in ReadAbsX THEN registers.x ELSE registers.y
              ea == (lo + 256 * hi + idx) % 65536
              cross == (ea \div 256) # hi
              fetches == IF ins1' \in ReadIndY THEN 4 ELSE 3
          IN  /\ Len(b) = fetches + 1 + (IF cross THEN 1 ELSE 0)
              /\ \A i \in 1..Len(b) : b[i].kind = "R"
              /\ b[Len(b)].addr = ea
              /\ (ins1' = \hBD /\ lo = \hFF /\ hi = \h00 /\ idx = 1) => Len(b) = 5
              /\ (ins1' = \hBD /\ lo = \h00 /\ hi = \h00 /\ idx = 1) => Len(b) = 4]_vars

\* C22 witness: LDA $00FF,X with X = 1 has made 5 accesses, the last at $0100
C22_Witness ==
    /\ phase = "Running" /\ ins1 = \hBD
    /\ bus[2].value = \hFF /\ bus[3].value = \h00 /\ registers.x = 1
    /\ Len(bus) = 5 /\ bus[5].addr = \h0100

\* C23: STA abs,X, STA abs,Y and STA (ind),Y always make exactly one dummy
\* read between the operand / pointer fetch and the write, whether or not
\* base + index crosses a page; the write goes to (base + index) mod 65536
\* and is the last access.
C23_StoreIndexedDummyRead ==
    [][(phase = "Running" /\ ins1' \in {\h9D, \h99, \h91}) =>
          LET b == bus'
              lo == IF ins1' = \h91 THEN b[3].value ELSE b[2].value
              hi == IF ins1' = \h91 THEN b[4].value ELSE b[3].value
              idx == IF ins1' = \h9D THEN registers.x ELSE registers.y
              fetches == IF ins1' = \h91 THEN 4 ELSE 3
          IN  /\ Len(b) = fetches + 2
              /\ \A i \in 1..(fetches + 1) : b[i].kind = "R"
              /\ b[fetches + 2].kind = "W"
              /\ b[fetches + 2].addr = (lo + 256 * hi + idx) % 65536
              /\ b[fetches + 2].value = registers.a
              /\ ins1' = \h91 =>
                    (b[3].addr = b[2].value /\ b[4].addr = (b[2].value + 1) % 256)]_vars

\* C23 witness: STA $0000,X with X = 1 (no page crossed) has made its dummy
\* read and written $0001 as its fifth access
C23_Witness ==
    /\ phase = "Running" /\ ins1 = \h9D
    /\ bus[2].value = \h00 /\ bus[3].value = \h00 /\ registers.x = 1
    /\ Len(bus) = 5
    /\ bus[4].kind = "R"
    /\ bus[5].kind = "W" /\ bus[5].addr = \h0001

\* C24: INC abs,X and DEC abs,X make the page-crossing dummy read
\* unconditionally: seven accesses (six reads, then the write) for every X.
C24_RmwAbsXUnconditional ==
    (phase = "Running" /\ ins1 \in {\hFE, \hDE}) =>
        /\ Len(bus) = 7
        /\ \A i \in 1..6 : bus[i].kind = "R"
        /\ bus[7].kind = "W"

\* C25: every instruction completes after at most 8 bus accesses and at most
\* 8 pacer cycles, whatever the opcode, and the loop goes on to the next
\* fetch.
C25_InstructionBounded ==
    [][phase = "Running" =>
          /\ phase' = "Running"
          /\ Len(bus') >= 1
          /\ Len(bus') <= 8
          /\ cycles' - cycles >= Len(bus')
          /\ cycles' - cycles <= 8
          /\ ins1' \in Byte]_vars

\* C25 witness: opcode $5C has completed with 3 bus accesses and 8 cycles
C25_Witness ==
    /\ phase = "Running" /\ ins1 = \h5C
    /\ Len(bus) = 3
    /\ cycles = bus[1].cycles + 7

\* C26: waitForCycles(n) adds n clock periods (250 ns) to the deadline and
\* leaves it normalised; after k cycles the deadline is the boot-time
\* deadline plus k periods, so it never decreases.
C26_DeadlineAdvance ==
    phase = "Running" =>
        LET total == seed + cycles * (NSEC_PER_SEC \div CLOCK_SPEED)
        IN  /\ targettime.tv_nsec >= 0
            /\ targettime.tv_nsec < 1000000000
            /\ targettime.tv_nsec = total % 1000000000
            /\ targettime.tv_sec = BootSec + (total \div 1000000000)
            /\ bus # << >> => cycles >= bus[Len(bus)].cycles

\* C26 witness: the deadline has been carried into the next second, and a
\* waitForCycles(5) has been added to it
C26_Witness ==
    /\ phase = "Running" /\ ins1 = \h5C
    /\ targettime.tv_sec = BootSec + 1
    /\ targettime.tv_nsec < 1000000000 - seed + cycles * 250

\* timespec a is at or before timespec b
AtOrBefore(a, b) ==
    \/ a.tv_sec < b.tv_sec
    \/ a.tv_sec = b.tv_sec /\ a.tv_nsec <= b.tv_nsec

\* the normalised timespec a - b, for b before a
TimeBetween(a, b) ==
    IF a.tv_nsec >= b.tv_nsec
    THEN [tv_sec |-> a.tv_sec - b.tv_sec, tv_nsec |-> a.tv_nsec - b.tv_nsec]
    ELSE [tv_sec |-> a.tv_sec - b.tv_sec - 1,
          tv_nsec |-> a.tv_nsec - b.tv_nsec + 1000000000]

\* C27: for every clock reading and deadline, the pacer does not sleep when
\* the deadline is at or before the reading, and otherwise sleeps for exactly
\* the deadline minus the reading.
C27_SleepUntilDeadline ==
    fin # NoCall /\ fin.op = "waitUntil" =>
        IF AtOrBefore(fin.target, fin.curtime)
        THEN ~fout.sleep
        ELSE /\ fout.sleep
             /\ fout.amount = TimeBetween(fin.target, fin.curtime)

\* <<bytes, cycles>> of an undocumented opcode
NopShape(op) ==
    IF op \in {\h22, \h42, \h62, \h82, \hC2, \hE2} THEN <<2, 2>>
    ELSE IF op = \h44 THEN <<2, 3>>
    ELSE IF op \in {\h54, \hD4, \hF4} THEN <<2, 4>>
    ELSE IF op \in {\hDC, \hFC} THEN <<3, 4>>
    ELSE IF op = \h5C THEN <<3, 8>>
    ELSE <<1, 1>>

\* C28: an undocumented opcode advances PC by its size and takes its cycle
\* count ($22,$42,$62,$82,$C2,$E2: 2 / 2; $44: 2 / 3; $54,$D4,$F4: 2 / 4;
\* $DC,$FC: 3 / 4; $5C: 3 / 8, three reads then five cycles without access;
\* any other opcode without a case: 1 / 1), only reads the bus, and leaves
\* A, X, Y, SP, P and memory as they were.
C28_UndocumentedNops ==
    [][(phase = "Running" /\ ins1' \in (Byte \ Implemented) \cup
                                        {\h22, \h42, \h62, \h82, \hC2, \hE2, \h44,
                                         \h54, \hD4, \hF4, \hDC, \hFC, \h5C}) =>
          LET shape == NopShape(ins1')
          IN  /\ registers' = [registers EXCEPT !.pc = (@ + shape[1]) % 65536]
              /\ cycles' = cycles + shape[2]
              /\ Len(bus') = IF ins1' = \h5C THEN 3 ELSE shape[2]
              /\ \A i \in 1..Len(bus') : bus'[i].kind = "R"
              /\ sysram' = sysram
              /\ rom0' = rom0
              /\ rom1' = rom1]_vars

\* C28 witness: $5C has run from a state with A, X, Y, P set, with its third
\* read 6 cycles before the end
C28_Witness ==
    /\ phase = "Running" /\ ins1 = \h5C
    /\ registers.a = \h7F /\ registers.x = 1 /\ registers.p = \h20
    /\ Len(bus) = 3 /\ bus[3].kind = "R"
    /\ cycles = bus[3].cycles + 5

\* the command line main() rejects: argc < 2, argc > 3, or fopen(argv[1]) fails
BadArgs ==
    IF Len(argv) + 1 < 2 \/ Len(argv) + 1 > 3 THEN TRUE ELSE argv[1] \notin FileNames

\* C29: with a wrong argument count or a ROM0 file that cannot be opened the
\* only step of the program is the exit with code 1: no bus access, no pacer
\* cycle, no instruction, no register or memory set.
C29_UsageErrorExit ==
    [][BadArgs =>
          /\ phase = "Start"
          /\ phase' = "Exit1"
          /\ bus' = << >>
          /\ cycles' = 0
          /\ ins1' = -1
          /\ targettime' = [tv_sec |-> 0, tv_nsec |-> 0]
          /\ registers' = [pc |-> 0, sp |-> 0, a |-> 0, x |-> 0, y |-> 0, p |-> 0]
          /\ sysram' = EmptyMem /\ rom0' = EmptyMem /\ rom1' = EmptyMem]_vars

\* C29 witness: the program has exited with code 1 on four arguments, the
\* first of them a readable ROM
C29_Witness ==
    /\ phase = "Exit1"
    /\ Len(argv) = 3
    /\ argv[1] \in FileNames
    /\ bus = << >> /\ cycles = 0

\* Opcodes that load A, X, Y from memory or from another register, and PLA
LoadsA == {\hA9, \hA5, \hB5, \hAD, \hBD, \hB9, \hA1, \hB1, \h8A, \h98, \h68}

LoadsX == {\hA2, \hA6, \hB6, \hAE, \hBE, \hAA, \hBA}

LoadsY == {\hA0, \hA4, \hB4, \hAC, \hBC, \hA8}

\* the destination / result byte of the instruction that ran in this step
C30_Result ==
    IF ins1' \in LoadsA THEN registers'.a
    ELSE IF ins1' \in LoadsX \cup {\hE8, \hCA} THEN registers'.x
    ELSE IF ins1' \in LoadsY \cup {\hC8, \h88} THEN registers'.y
    ELSE bus'[Len(bus')].value

\* the byte an increment, decrement or register transfer must produce
C30_Expected ==
    CASE ins1' = \hE8 -> (registers.x + 1) % 256
      [] ins1' = \hCA -> (registers.x + 255) % 256
      [] ins1' = \hC8 -> (registers.y + 1) % 256
      [] ins1' = \h88 -> (registers.y + 255) % 256
      [] ins1' \in {\hE6, \hF6, \hEE, \hFE} -> (bus'[Len(bus') - 1].value + 1) % 256
      [] ins1' \in {\hC6, \hD6, \hCE, \hDE} -> (bus'[Len(bus') - 1].value + 255) % 256
      [] ins1' \in {\hAA, \hA8} -> registers.a
      [] ins1' = \h8A -> registers.x
      [] ins1' = \h98 -> registers.y
      [] ins1' = \hBA -> registers.sp
      [] ins1' = \h68 -> bus'[Len(bus')].value
      [] OTHER -> bus'[Len(bus')].value

StoresA == {\h85, \h95, \h8D, \h9D, \h99, \h81, \h91}

StoresX == {\h86, \h96, \h8E}

StoresY == {\h84, \h94, \h8C}

\* The effective address of a store, from the bytes its bus log b read and
\* the registers r before it
StoreTarget(op, b, r) ==
    CASE op \in {\h85, \h86, \h84} -> b[2].value
      [] op \in {\h95, \h94} -> (b[2].value + r.x) % 256
      [] op = \h96 -> (b[2].value + r.y) % 256
      [] op \in {\h8D, \h8E, \h8C} -> b[2].value + 256 * b[3].value
      [] op = \h9D -> (b[2].value + 256 * b[3].value + r.x) % 65536
      [] op = \h99 -> (b[2].value + 256 * b[3].value + r.y) % 65536
      [] op = \h81 -> b[4].value + 256 * b[5].value
      [] op = \h91 -> (b[3].value + 256 * b[4].value + r.y) % 65536

\* C31: STA / STX / STY in every mode, TXS, PHA, PHP, JMP, JSR, RTS and NOP
\* leave P as it was; a store also leaves A, X, Y and SP as they were, and no
\* byte of memory other than the one at its effective address changes.
C31_NoFlagInstructions ==
    [][(phase = "Running" /\ ins1' \in StoresA \cup StoresX \cup StoresY \cup
                                       {\h9A, \h48, \h08, \h4C, \h6C, \h7C, \h20,
                                        \h60, \hEA}) =>
          /\ registers'.p = registers.p
          /\ ins1' \in StoresA \cup StoresX \cup StoresY =>
                LET ea == StoreTarget(ins1', bus', registers)
                    src == IF ins1' \in StoresA THEN registers.a
                           ELSE IF ins1' \in StoresX THEN registers.x
                           ELSE registers.y
                IN  /\ registers'.a = registers.a
                    /\ registers'.x = registers.x
                    /\ registers'.y = registers.y
                    /\ registers'.sp = registers.sp
                    /\ rom0' = rom0
                    /\ rom1' = rom1
                    /\ \A a \in (DOMAIN sysram \cup DOMAIN sysram') \ {ea} :
                          RamByte(sysram', seed, a) = RamByte(sysram, seed, a)
                    /\ ea < 32768 => RamByte(sysram', seed, ea) = src
                    /\ bus'[Len(bus')] = [kind |-> "W", addr |-> ea, value |-> src,
                                          cycles |-> cycles']]_vars

\* C31 witness: STA $01 has stored A = $00 with every flag clear
C31_Witness ==
    /\ phase = "Running" /\ ins1 = \h85
    /\ registers.a = 0 /\ registers.p = 0
    /\ Len(bus) = 3 /\ bus[3].kind = "W" /\ bus[3].addr = 1
    /\ RamByte(sysram, seed, 1) = 0

\* The documented opcodes of one byte (implied and stack)
OneByteOps ==
    {\hAA, \hA8, \hBA, \h8A, \h9A, \h98, \h48, \h08, \h68, \h28, \hE8, \hC8,
     \hCA, \h88, \h18, \hD8, \h58, \hB8, \h38, \hF8, \h78, \hEA}

\* The documented opcodes of three bytes (absolute and absolute indexed),
\* without JMP and JSR
ThreeByteOps ==
    {\hAD, \hBD, \hB9, \hAE, \hBE, \hAC, \hBC, \h8D, \h9D, \h99, \h8E, \h8C,
     \hEE, \hFE, \hCE, \hDE, \h6D, \h7D, \h79, \hED, \hFD, \hF9}

\* The documented opcodes of two bytes: immediate, zero page, zero page
\* indexed and the zero-page indirect modes
TwoByteOps ==
    {\hA9, \hA5, \hB5, \hA1, \hB1, \hA2, \hA6, \hB6, \hA0, \hA4, \hB4, \h85,
     \h95, \h81, \h91, \h86, \h96, \h84, \h94, \hE6, \hF6, \hC6, \hD6, \h69,
     \h65, \h75, \h61, \h71, \h72, \hE9, \hE5, \hF5, \hE1, \hF1, \hF2}

\* C32: an instruction other than JMP, JSR, RTS, RTI and BRK leaves PC at its
\* own address plus its length mod 65536 (1 implied, 2 immediate / zero page /
\* zero-page indirect, 3 absolute and absolute indexed); LDA abs,Y and
\* LDX abs,Y end 3 bytes on, as LDA abs,X and LDY abs,X do.
C32_PcAdvancesByLength ==
    [][(phase = "Running" /\ ins1' \in OneByteOps \cup TwoByteOps \cup ThreeByteOps) =>
          LET length == IF ins1' \in OneByteOps THEN 1
                        ELSE IF ins1' \in TwoByteOps THEN 2 ELSE 3
          IN  registers'.pc = (registers.pc + length) % 65536]_vars

\* C33: when a read-class abs,X or abs,Y instruction crosses a page, its two
\* operand reads come first, then the dummy read at
\* (abs & $FF00) | ((abs + idx) & $FF), then the real read at abs + idx.
C33_DummyReadAddress ==
    [][(phase = "Running" /\ ins1' \in ReadAbsX \cup ReadAbsY) =>
          LET b == bus'
              lo == b[2].value
              hi == b[3].value
              idx == IF ins1' \in ReadAbsX THEN registers.x ELSE registers.y
          IN  lo + idx > 255 =>
                /\ Len(b) = 5
                /\ b[2].addr = (registers.pc + 1) % 65536
                /\ b[3].addr = (registers.pc + 2) % 65536
                /\ b[4].kind = "R"
                /\ b[4].addr = 256 * hi + ((lo + idx) % 256)
                /\ b[5].kind = "R"
                /\ b[5].addr = (lo + 256 * hi + idx) % 65536]_vars

\* The implied-mode opcodes
ImpliedOps ==
    {\hAA, \hA8, \hBA, \h8A, \h9A, \h98, \hE8, \hC8, \hCA, \h88, \h18, \hD8,
     \h58, \hB8, \h38, \hF8, \h78, \hEA}

\* C34: an implied-mode instruction (TAX, TAY, TSX, TXA, TXS, TYA, INX, INY,
\* DEX, DEY, CLC, CLD, CLI, CLV, SEC, SED, SEI, NOP) makes, after the opcode
\* fetch, exactly one read, at the address of the following byte, and leaves
\* PC at that byte.
C34_ImpliedDummyRead ==
    [][(phase = "Running" /\ ins1' \in ImpliedOps) =>
          /\ Len(bus') = 2
          /\ bus'[1].addr = registers.pc
          /\ bus'[2].kind = "R"
          /\ bus'[2].addr = (registers.pc + 1) % 65536
          /\ registers'.pc = (registers.pc + 1) % 65536]_vars

\* C34 witness: SEC at $E00D has read $E00E and left PC there, with C set
C34_Witness ==
    /\ phase = "Running" /\ ins1 = \h38
    /\ Len(bus) = 2
    /\ bus[1].addr = \hE00D /\ bus[2].addr = \hE00E /\ bus[2].kind = "R"
    /\ registers.pc = \hE00E
    /\ registers.p = \h21

\* The opcodes with a zero-page operand that is indexed or used as a pointer
ZpIdxX == {\hB5, \hB4, \h95, \h94, \h75, \hF5, \hF6, \hD6, \h54, \hD4, \hF4}

ZpIdxY == {\hB6, \h96}

IndX == {\hA1, \h81, \h61, \hE1}

IndY == {\hB1, \h91, \h71, \hF1}

ZpInd == {\h72, \hF2}

\* C35: in the zp,X, zp,Y, (ind,X), (ind),Y and (zp) modes the accesses made
\* from the zero-page operand stay in $0000-$00FF: the dummy read is at zp,
\* the indexed operand at (zp + index) mod 256, the pointer bytes at p and
\* (p + 1) mod 256, so that a pointer at $FF has its high byte at $0000.
C35_ZeroPageWrap ==
    [][(phase = "Running" /\ ins1' \in ZpIdxX \cup ZpIdxY \cup IndX \cup IndY \cup ZpInd) =>
          LET b == bus'
              zp == b[2].value
          IN  /\ b[3].addr = zp
              /\ ins1' \in ZpIdxX \cup ZpIdxY =>
                    LET idx == IF ins1' \in ZpIdxX THEN registers.x ELSE registers.y
                    IN  /\ b[Len(b)].addr = (zp + idx) % 256
                        /\ \A i \in 3..Len(b) : b[i].addr \in {zp, (zp + idx) % 256}
              /\ ins1' \in IndX =>
                    /\ b[4].addr = (zp + registers.x) % 256
                    /\ b[5].addr = (zp + registers.x + 1) % 256
                    /\ b[4].addr = \hFF => b[5].addr = 0
                    /\ b[6].addr = b[4].value + 256 * b[5].value
              /\ ins1' \in IndY \cup ZpInd =>
                    /\ b[4].addr = (zp + 1) % 256
                    /\ zp = \hFF => b[4].addr = 0]_vars

\* C35 witness: LDA ($80,X) with X = $7F has read its pointer at $00FF and
\* $0000
C35_Witness ==
    /\ phase = "Running" /\ ins1 = \hA1
    /\ bus[2].value = \h80 /\ registers.x = \h7F
    /\ bus[3].addr = \h80 /\ bus[4].addr = \hFF /\ bus[5].addr = 0
    /\ Len(bus) = 6

\* C36: after PLP bits 0-4, 6 and 7 of P are those of the popped byte and
\* bit 5 of P is 1, whatever the popped byte.
C36_PlpForcesBit5 ==
    [][(phase = "Running" /\ ins1' = \h28) =>
          LET popped == bus'[Len(bus')].value
          IN  /\ \A i \in {0, 1, 2, 3, 4, 6, 7} : Bit(registers'.p, i) = Bit(popped, i)
              /\ Bit(registers'.p, 5) = 1]_vars

\* C37: PLA, PLP, RTS and RTI read, after the opcode fetch, at PC and then
\* at $0100 | SP with SP not yet changed; only then SP is incremented before
\* each popped byte is read at $0100 | SP.  RTS pops PC low then PC high, RTI
\* pops P, PC low, PC high.
C37_PullSequence ==
    [][(phase = "Running" /\ ins1' \in {\h68, \h28, \h60, \h40}) =>
          LET b == bus'
              sp == registers.sp
              pops == CASE ins1' \in {\h68, \h28} -> 1
                        [] ins1' = \h60 -> 2
                        [] ins1' = \h40 -> 3
          IN  /\ Len(b) = 3 + pops + (IF ins1' = \h60 THEN 1 ELSE 0)
              /\ \A i \in 1..Len(b) : b[i].kind = "R"
              /\ b[2].addr = (registers.pc + 1) % 65536
              /\ b[3].addr = 256 + sp
              /\ \A k \in 1..pops : b[3 + k].addr = 256 + ((sp + k) % 256)
              /\ registers'.sp = (sp + pops) % 256
              /\ ins1' = \h68 => registers'.a = b[4].value
              /\ ins1' = \h28 => registers'.p = b[4].value
              /\ ins1' = \h60 =>
                    /\ b[6].addr = b[4].value + 256 * b[5].value
                    /\ registers'.pc = (b[4].value + 256 * b[5].value + 1) % 65536
              /\ ins1' = \h40 =>
                    /\ registers'.p = b[4].value
                    /\ registers'.pc = b[5].value + 256 * b[6].value]_vars

\* C37 witness: RTI with SP = $FF has read $01FF, then popped from $0100,
\* $0101 and $0102
C37_Witness ==
    /\ phase = "Running" /\ ins1 = \h40
    /\ Len(bus) = 6
    /\ bus[3].addr = \h01FF /\ bus[4].addr = \h0100 /\ bus[5].addr = \h0101
    /\ bus[6].addr = \h0102
    /\ registers.sp = 2
    /\ registers.pc = bus[5].value + 256 * bus[6].value

\* C38: BRK at B = $E00D, run from the registers of set-up k, followed by the
\* RTI at the vector target $E100, ends with PC = B + 2, SP as before the BRK,
\* P = the byte BRK pushed (P before the BRK with B and bit 5 set) and A, X,
\* Y as before the BRK.
C38_BrkRtiRoundTrip ==
    \A k \in 1..Len(Setups) :
        (/\ phase = "Running"
         /\ argv = << <<"one", \h00, k>> >>
         /\ ins1 = \h40
         /\ bus[1].addr = \hE100) =>
            LET u == Setups[k]
                pushed == BitOr(BitOr(u[2], FLAG_BREAK), FLAG_ONE)
            IN  /\ registers.pc = \hE00D + 2
                /\ registers.sp = u[1]
                /\ registers.p = pushed
                /\ bus[4].value = pushed
                /\ registers.a = u[5]
                /\ registers.x = u[3]
                /\ registers.y = u[4]

\* C38 witness: BRK with SP = $00 and P = $C3, then RTI: PC = $E00F, SP = $00,
\* P = $F3
C38_Witness ==
    /\ phase = "Running" /\ ins1 = \h40
    /\ argv = << <<"one", \h00, 2>> >>
    /\ bus[1].addr = \hE100
    /\ bus[4].addr = \h01FE /\ bus[6].addr = \h0100
    /\ registers.pc = \hE00F /\ registers.sp = 0 /\ registers.p = \hF3
    /\ registers.a = \hFF

\* the 8192-byte array rom holds the bytes of file f, zero-padded or truncated
HoldsFile(rom, f) ==
    LET content == FileBytes(f)
    IN  \A i \in (DOMAIN content \cup DOMAIN rom) :
           i < 8192 => RomByte(rom, i) = (IF i \in DOMAIN content THEN content[i] ELSE 0)

\* C39: after boot ROM0 holds the first file; with two ROM arguments ROM1
\* holds the second file, with one argument ROM1 is all zero.
C39_RomImages ==
    phase = "Running" =>
        /\ HoldsFile(rom0, argv[1])
        /\ Len(argv) = 2 => HoldsFile(rom1, argv[2])
        /\ Len(argv) = 1 => \A i \in DOMAIN rom1 : rom1[i] = 0

====
